---- MODULE Spec2Model ----
(***************************************************************************)
(* A model of the credentials package of akamai-sdk-go: the AuthValue      *)
(* bundle, the Static / Environment / Shared-File providers (plus the      *)
(* stubProvider of the package tests) and the Credentials cache with its   *)
(* sync.RWMutex, as used by concurrent callers of Get, Expire, IsExpired;  *)
(* and of the Signer of package akamai, which takes credentials from the   *)
(* cache and writes the EdgeGrid Authorization header onto a request, and  *)
(* of the Client, whose NewRequest makes a request and has it signed.      *)
(***************************************************************************)
EXTENDS Integers, Sequences, FiniteSets, TLC

VARIABLES
    kind,          \* which Provider implementation the cache wraps
    env,           \* the process environment (os.Getenv / os.Setenv)
    fs,            \* the files ini.Load can see
    homeOK,        \* whether homedir.Dir() succeeds
    prov,          \* the Provider's fields
    creds,         \* Credentials.creds
    forceRefresh,  \* Credentials.forceRefresh
    rw,            \* Credentials.m, the sync.RWMutex
    pc,            \* each caller's position
    loc,           \* each caller's locals of the call in progress
    res,           \* each caller's most recent return
    g,             \* history of the run (counts of Retrieve calls etc.)
    budget,        \* calls the callers may still start, Setenv calls left
    signer,        \* the Signer's fields
    req,           \* the *http.Request the caller holds and passes to Sign
    ctx,           \* the signingCtx of the latest Sign, and how far that Sign got
    client         \* the Client's fields

vars == <<kind, env, fs, homeOK, prov, creds, forceRefresh, rw, pc, loc, res, g, budget,
          signer, req, ctx, client>>

-----------------------------------------------------------------------------
(* Bounds *)

\* callers of the N-concurrent-Get specifications: N ranges over 1..MaxGetters
MaxGetters == 3
\* calls of the cache the callers of Spec may make together
MaxCalls == 4
\* concurrent callers of Spec
NCallers == 2
\* calls the single caller of SpecSeq may make
MaxSeqCalls == 3
\* changes of the environment (os.Setenv) or of the stub in one run
MaxSetenv == 1
\* Sign calls in one run of SpecSign
MaxSign == 2
\* length of the Signer's HeadersToSign list
MaxHeadersToSign == 2
\* length of a header value in the runs of SpecCanon
MaxValueLen == 4

-----------------------------------------------------------------------------
(* AuthValue and errors *)

AuthValue(cs, ct, at, ah, pn) ==
    [ClientSecret |-> cs, ClientToken |-> ct, AccessToken |-> at, Host |-> ah,
     ProviderName |-> pn]

\* AuthValue{}
ZeroAuth == AuthValue("", "", "", "", "")

\* An error value: a package-level error variable has alloc = 0 and is one
\* value for the whole process; an error made by errors.New at the time of
\* the call is a new value each time (alloc = the number of that allocation).
ErrVar(name) == [name |-> name, alloc |-> 0]

NoErr == ErrVar("nil")

EnvProviderName == "EnvProvider"
SharedCredsProviderName == "SharedCredentialsProvider"
StaticProviderName == "StaticProvider"

ErrClientSecretNotFoundEnv == ErrVar("AKAMAI_CLIENT_SECRET not found in environment")
ErrClientTokenNotFoundEnv == ErrVar("AKAMAI_CLIENT_TOKEN not found in environment")
ErrAccessTokenNotFoundEnv == ErrVar("AKAMAI_ACCESS_TOKEN not found in environment")
ErrAkamaiHostNotFoundEnv == ErrVar("AKAMAI_HOST not found in environment")

ErrSharedCredentialsNotFoundFile == ErrVar(".edgerc file not found")
ErrSharedCredentialsProfileNotFound == ErrVar("could not load profile from .edgerc")
ErrClientSecretNotFoundFile == ErrVar("client_secret not found in .edgerc")
ErrClientTokenNotFoundFile == ErrVar("client_token not found in .edgerc")
ErrAccessTokenNotFoundFile == ErrVar("access_token not found in .edgerc")
ErrAkamaiHostNotFoundFile == ErrVar("host not found in .edgerc")

ErrStaticCredentialsEmpty == ErrVar("EmptyStaticCreds: static credentials are empty")

\* errors.New("could not find user's homedir"), the k-th allocation of the run
ErrHomedir(k) == [name |-> "could not find user's homedir", alloc |-> k]

\* the error the stubProvider of the tests is constructed with
ErrStub == ErrVar("stub error")

\* The result of a Retrieve: the provider afterwards, the value and the error.
Ret(p, v, e) == [prov |-> p, val |-> v, err |-> e]

-----------------------------------------------------------------------------
(* The environment and the file system *)

CredVars == {"AKAMAI_CLIENT_SECRET", "AKAMAI_CLIENT_TOKEN", "AKAMAI_ACCESS_TOKEN", "AKAMAI_HOST"}
FileVars == {"AKAMAI_ENVRC_FILE", "AKAMAI_PROFILE"}
EnvVars == CredVars \cup FileVars

\* os.Clearenv()
ClearEnv == [v \in EnvVars |-> ""]

Keys == {"client_secret", "client_token", "access_token", "host"}
\* what a section holds for a key: no such key, an empty value, or a value
NoKey == "<no key>"
KeyVals == {NoKey, "", "v"}

HomeDir == "/home/u"
HomeEdgerc == HomeDir \o "/.edgerc"
Paths == {"f1", HomeEdgerc}
ProfileNames == {"default", "p1"}

\* a file that does not exist
NoFile == [exists |-> FALSE, sections |-> {}, keys |-> [k \in Keys |-> NoKey]]
\* an ini file with the sections secs, each holding the keys ks
IniFile(secs, ks) == [exists |-> TRUE, sections |-> secs, keys |-> ks]

-----------------------------------------------------------------------------
(* Providers *)

\* The fields of every Provider implementation in one record; a provider
\* uses the fields of its own type: EnvProvider.retrieved,
\* SharedCredentialsProvider.{Filename, Profile, retrieved},
\* StaticProvider.AuthValue, stubProvider.{creds, expired, err}.
Provider(retrieved, filename, profile, av, expired, err) ==
    [retrieved |-> retrieved, Filename |-> filename, Profile |-> profile,
     av |-> av, expired |-> expired, err |-> err]

EnvProvider == Provider(FALSE, "", "", ZeroAuth, FALSE, NoErr)
SharedCredentialsProvider(filename, profile) ==
    Provider(FALSE, filename, profile, ZeroAuth, FALSE, NoErr)
StaticProvider(av) == Provider(FALSE, "", "", av, FALSE, NoErr)
stubProvider(av, expired, err) == Provider(FALSE, "", "", av, expired, err)

\* EnvProvider.Retrieve that reads the host before the access token
EnvProviderRetrieve_HostFirst(p, e) ==
    LET cs == e["AKAMAI_CLIENT_SECRET"]
        ct == e["AKAMAI_CLIENT_TOKEN"]
        at == e["AKAMAI_ACCESS_TOKEN"]
        ah == e["AKAMAI_HOST"]
        fail == AuthValue("", "", "", "", EnvProviderName)
    IN  IF cs = "" THEN Ret(p, fail, ErrClientSecretNotFoundEnv)
        ELSE IF ct = "" THEN Ret(p, fail, ErrClientTokenNotFoundEnv)
        ELSE IF ah = "" THEN Ret(p, fail, ErrAkamaiHostNotFoundEnv)
        ELSE IF at = "" THEN Ret(p, fail, ErrAccessTokenNotFoundEnv)
        ELSE Ret([p EXCEPT !.retrieved = TRUE],
                 AuthValue(cs, ct, at, ah, EnvProviderName), NoErr)

\* EnvProvider.Retrieve after its first statement: the four reads in order.
EnvProviderRetrieve(p, e) ==
    LET cs == e["AKAMAI_CLIENT_SECRET"]
        ct == e["AKAMAI_CLIENT_TOKEN"]
        at == e["AKAMAI_ACCESS_TOKEN"]
        ah == e["AKAMAI_HOST"]
        fail == AuthValue("", "", "", "", EnvProviderName)
    IN  IF cs = "" THEN Ret(p, fail, ErrClientSecretNotFoundEnv)
        ELSE IF ct = "" THEN Ret(p, fail, ErrClientTokenNotFoundEnv)
        ELSE IF at = "" THEN Ret(p, fail, ErrAccessTokenNotFoundEnv)
        ELSE IF ah = "" THEN Ret(p, fail, ErrAkamaiHostNotFoundEnv)
        ELSE Ret([p EXCEPT !.retrieved = TRUE],
                 AuthValue(cs, ct, at, ah, EnvProviderName), NoErr)

\* SharedCredentialsProvider.filename: the provider afterwards (it stores the
\* environment's value in p.Filename), the name and the error.
filename(p, e, home, k) ==
    IF p.Filename # "" THEN [prov |-> p, name |-> p.Filename, err |-> NoErr]
    ELSE LET q == [p EXCEPT !.Filename = e["AKAMAI_ENVRC_FILE"]]
         IN  IF q.Filename # "" THEN [prov |-> q, name |-> q.Filename, err |-> NoErr]
             ELSE IF ~home THEN [prov |-> q, name |-> "", err |-> ErrHomedir(k)]
             ELSE [prov |-> q, name |-> HomeEdgerc, err |-> NoErr]

\* SharedCredentialsProvider.profile: the provider afterwards (it stores the
\* resolved name in p.Profile); the name returned is prov.Profile.
profile(p, e) ==
    LET q == IF p.Profile = "" THEN [p EXCEPT !.Profile = e["AKAMAI_PROFILE"]] ELSE p
    IN  IF q.Profile = "" THEN [q EXCEPT !.Profile = "default"] ELSE q

\* loadProfile: ini.Load, GetSection, then the four keys in order.
loadProfile(files, name, prof) ==
    LET fail == AuthValue("", "", "", "", SharedCredsProviderName)
        f == IF name \in DOMAIN files THEN files[name] ELSE NoFile
        bad(k) == f.keys[k] = NoKey \/ f.keys[k] = ""
    IN  IF ~f.exists THEN [val |-> fail, err |-> ErrSharedCredentialsNotFoundFile]
        ELSE IF prof \notin f.sections
            THEN [val |-> fail, err |-> ErrSharedCredentialsProfileNotFound]
        ELSE IF bad("client_secret") THEN [val |-> fail, err |-> ErrClientSecretNotFoundFile]
        ELSE IF bad("client_token") THEN [val |-> fail, err |-> ErrClientTokenNotFoundFile]
        ELSE IF bad("access_token") THEN [val |-> fail, err |-> ErrClientTokenNotFoundFile]
        ELSE IF bad("host") THEN [val |-> fail, err |-> ErrAkamaiHostNotFoundFile]
        ELSE [val |-> AuthValue(f.keys["client_secret"], f.keys["client_token"],
                                f.keys["access_token"], f.keys["host"],
                                SharedCredsProviderName),
              err |-> NoErr]

\* SharedCredentialsProvider.Retrieve after its first statement.
SharedCredentialsProviderRetrieve(p, e, files, home, k) ==
    LET fn == filename(p, e, home, k)
        fail == AuthValue("", "", "", "", SharedCredsProviderName)
    IN  IF fn.err # NoErr THEN Ret(fn.prov, fail, fn.err)
        ELSE LET q == profile(fn.prov, e)
                 lp == loadProfile(files, fn.name, q.Profile)
             IN  IF lp.err # NoErr THEN Ret(q, fail, lp.err)
                 ELSE Ret([q EXCEPT !.retrieved = TRUE], lp.val, NoErr)

\* StaticProvider.Retrieve that checks the client secret alone
StaticProviderRetrieve_SecretOnly(p) ==
    IF p.av.ClientSecret = ""
    THEN Ret(p, AuthValue("", "", "", "", StaticProviderName), ErrStaticCredentialsEmpty)
    ELSE LET q == IF p.av.ProviderName = ""
                  THEN [p EXCEPT !.av.ProviderName = StaticProviderName] ELSE p
         IN  Ret(q, q.av, NoErr)

\* StaticProvider.Retrieve
StaticProviderRetrieve(p) ==
    IF p.av.ClientSecret = "" \/ p.av.ClientToken = "" \/ p.av.AccessToken = ""
       \/ p.av.Host = ""
    THEN Ret(p, AuthValue("", "", "", "", StaticProviderName), ErrStaticCredentialsEmpty)
    ELSE LET q == IF p.av.ProviderName = ""
                  THEN [p EXCEPT !.av.ProviderName = StaticProviderName] ELSE p
         IN  Ret(q, q.av, NoErr)

\* stubProvider.Retrieve after its first statement
stubProviderRetrieve(p) ==
    LET q == [p EXCEPT !.av.ProviderName = "stubProvider"]
    IN  Ret(q, q.av, q.err)

\* Retrieve that does not reset the provider first
RetrieveEnter_NoReset(k, p) == p

\* The first statement of Retrieve: retrieved = false (Environment and
\* Shared-File), expired = false (stub); the Static provider has none.
RetrieveEnter(k, p) ==
    CASE k = "env" -> [p EXCEPT !.retrieved = FALSE]
      [] k = "shared" -> [p EXCEPT !.retrieved = FALSE]
      [] k = "stub" -> [p EXCEPT !.expired = FALSE]
      [] OTHER -> p

\* The rest of Retrieve, for the provider p of kind k.
RetrieveBody(k, p, e, files, home, n) ==
    CASE k = "env" -> EnvProviderRetrieve(p, e)
      [] k = "shared" -> SharedCredentialsProviderRetrieve(p, e, files, home, n)
      [] k = "static" -> StaticProviderRetrieve(p)
      [] OTHER -> stubProviderRetrieve(p)

\* Provider.IsExpired
ProviderIsExpired(k, p) ==
    CASE k = "env" -> ~p.retrieved
      [] k = "shared" -> ~p.retrieved
      [] k = "static" -> FALSE
      [] OTHER -> p.expired

-----------------------------------------------------------------------------
(* Strings: a Go string is a TLA+ string; the functions of the strings and
   unicode packages that the Signer uses, over the characters of the model *)

Char(s, i) == SubSeq(s, i, i)

\* s[i:], from the 0-based index i
From(s, i) == SubSeq(s, i + 1, Len(s))

\* the characters of the model in byte order
Bytes == "\t\n\r %&-0123456789:=?ABCDEFGHIJKLMNOPQRSTUVWXYZabcdefghijklmnopqrstuvwxyz"

Ord(c) == CHOOSE i \in 1..Len(Bytes) : Char(Bytes, i) = c

\* a < b, as sort.Strings compares
RECURSIVE StrLess(_, _)
StrLess(a, b) ==
    IF b = "" THEN FALSE
    ELSE IF a = "" THEN TRUE
    ELSE IF Char(a, 1) = Char(b, 1) THEN StrLess(From(a, 1), From(b, 1))
    ELSE Ord(Char(a, 1)) < Ord(Char(b, 1))

\* sort.Strings, on the keys of a map
RECURSIVE SortStrings(_)
SortStrings(S) ==
    IF S = {} THEN <<>>
    ELSE LET m == CHOOSE x \in S : \A y \in S \ {x} : StrLess(x, y)
         IN  <<m>> \o SortStrings(S \ {m})

IsSpace(c) == c \in {" ", "\t", "\n", "\r"}

UpperCase == "ABCDEFGHIJKLMNOPQRSTUVWXYZ"
LowerCase == "abcdefghijklmnopqrstuvwxyz"

\* the lower-case letter of each upper-case letter
LowerOf ==
    [c \in { Char(UpperCase, i) : i \in 1..Len(UpperCase) } |->
        Char(LowerCase, CHOOSE i \in 1..Len(UpperCase) : Char(UpperCase, i) = c)]

RECURSIVE ToLower(_)
ToLower(s) ==
    IF s = "" THEN ""
    ELSE (IF Char(s, 1) \in DOMAIN LowerOf THEN LowerOf[Char(s, 1)] ELSE Char(s, 1))
         \o ToLower(From(s, 1))

\* s == t under Unicode case folding, for the letters of the model
EqualFold(s, t) == ToLower(s) = ToLower(t)

RECURSIVE TrimLeft(_)
TrimLeft(s) == IF s # "" /\ IsSpace(Char(s, 1)) THEN TrimLeft(From(s, 1)) ELSE s

RECURSIVE TrimRight(_)
TrimRight(s) ==
    IF s # "" /\ IsSpace(Char(s, Len(s))) THEN TrimRight(SubSeq(s, 1, Len(s) - 1)) ELSE s

TrimSpace(s) == TrimRight(TrimLeft(s))

RECURSIVE Join(_, _)
Join(a, sep) ==
    IF a = <<>> THEN ""
    ELSE IF Len(a) = 1 THEN a[1]
    ELSE a[1] \o sep \o Join(Tail(a), sep)

\* strings.HasSuffix
HasSuffix(s, t) == Len(s) >= Len(t) /\ SubSeq(s, Len(s) - Len(t) + 1, Len(s)) = t

\* strings.Index with a one-character substring, from 1; 0 when s has none
Index(s, c) ==
    IF \E i \in 1..Len(s) : Char(s, i) = c
    THEN CHOOSE i \in 1..Len(s) : Char(s, i) = c /\ \A j \in 1..(i - 1) : Char(s, j) # c
    ELSE 0

\* strings.Contains
Contains(s, sub) ==
    \E i \in 1..(Len(s) - Len(sub) + 1) : SubSeq(s, i, i + Len(sub) - 1) = sub

-----------------------------------------------------------------------------
(* net/http: requests, header sets and body streams *)

\* a nil http.Header, and a header set with the entries of h; the keys are
\* in canonical MIME form, as Header.Set stores them, and h[k] is what
\* Header.Get(k) returns
NilHeader == [nil |-> TRUE, h |-> <<>>]
Header(h) == [nil |-> FALSE, h |-> h]

\* a Set that leaves k as the only header
HeaderSet_DropsOthers(h, k, v) == [n \in {k} |-> v]

\* Header.Set(k, v)
HeaderSet(h, k, v) == [n \in DOMAIN h \cup {k} |-> IF n = k THEN v ELSE h[n]]

\* a nil Body, and bytes.NewBuffer(b) behind ioutil.NopCloser: off bytes of
\* buf have been read
NilBody == [nil |-> TRUE, buf |-> "", off |-> 0]
NewBuffer(b) == [nil |-> FALSE, buf |-> b, off |-> 0]

\* ioutil.ReadAll: the unread bytes, and the stream left at its end
ReadAll(body) ==
    [bytes |-> From(body.buf, body.off), body |-> [body EXCEPT !.off = Len(body.buf)]]

Request(m, q, h, b) ==
    [Method |-> m,
     URL |-> [Scheme |-> "https", Host |-> "akaa.example", Path |-> "/p", RawQuery |-> q],
     Header |-> h, Body |-> b]

\* a URL, as url.Parse and URL.Parse give it
URL(scheme, host, path, query) ==
    [Scheme |-> scheme, Host |-> host, Path |-> path, RawQuery |-> query]

\* the Client: BaseURL and UserAgent (Credentials is the cache of the
\* model); NoClient where no Client has been made
userAgent == "go-akamai"

NoClient == [BaseURL |-> URL("", "", "", ""), UserAgent |-> ""]

-----------------------------------------------------------------------------
(* The Signer *)

\* NewSigner, for the Signer of authentication.go (file "authentication.go")
\* and for the later one with HeadersToSign, MaxBody, Timestamp and Nonce
\* (file "signer"): every field but Credentials is zero
NewSigner(file) ==
    [file |-> file, HeadersToSign |-> <<>>, MaxBody |-> 0, Timestamp |-> "", Nonce |-> ""]

\* the limit Sign puts on the hashed body when MaxBody is 0
DefaultMaxBody == 131072

\* base64(sha256(b)) and base64(HMAC-SHA256(key, data)): the digest is
\* never empty, and is a different string for different arguments
Sum256Base64(b) == "sha256{" \o b \o "}"

createSignature(data, key) == "hmac{" \o key \o "}{" \o data \o "}"

\* a signingCtx as Sign creates it, with the Request it points to kept in
\* req; phase tells how far the Sign of caller `by` got ("none", "Get",
\* "returned", "panic"), orig is the request and Body the reader as they
\* were passed, stdout what the call has printed; while Get runs, the
\* other fields are still those of the context before
NoCtx ==
    [by |-> 0, phase |-> "none", orig |-> Request("", "", <<>>, NilBody), stdout |-> <<>>,
     Body |-> NilBody, SignedHeaderVals |-> NilHeader, credValues |-> ZeroAuth,
     formattedTime |-> "", nonce |-> "", maxBody |-> 0, headersToSign |-> <<>>,
     contentHash |-> "", canonicalHeaders |-> "", pathQuery |-> "", authHeaders |-> "",
     signedAuthHeaders |-> "", signingData |-> "", signingKey |-> ""]

\* a context that does not take the Signer's Timestamp and Nonce
NewSigningCtx_NoOverrides(c, s, cv) ==
    [NoCtx EXCEPT !.by = c.by, !.phase = c.phase, !.orig = c.orig, !.stdout = c.stdout,
                  !.Body = c.Body, !.credValues = cv, !.headersToSign = s.HeadersToSign,
                  !.maxBody = IF s.MaxBody = 0 THEN DefaultMaxBody ELSE s.MaxBody]

\* Sign, lines 53-67: a new context for the call that c keeps track of
NewSigningCtx(c, s, cv) ==
    [NoCtx EXCEPT !.by = c.by, !.phase = c.phase, !.orig = c.orig, !.stdout = c.stdout,
                  !.Body = c.Body, !.credValues = cv, !.formattedTime = s.Timestamp, !.nonce = s.Nonce,
                  !.headersToSign = s.HeadersToSign,
                  !.maxBody = IF s.MaxBody = 0 THEN DefaultMaxBody ELSE s.MaxBody]

\* time.Now() formatted, and uuid.NewRandom(): whatever the clock and the
\* random source give
Clock == {"20190401T10:00:00+0000", "20190401T10:00:01+0000"}
UUIDs == {"uuid-1", "uuid-2"}

buildTime(c, now) == [c EXCEPT !.formattedTime = now]

buildNonce(c, u) == [c EXCEPT !.nonce = u]

\* a signing key with the timestamp as the HMAC key and the secret as the
\* message
buildSigningKey_Reversed(c) ==
    [c EXCEPT !.signingKey = createSignature(c.credValues.ClientSecret, c.formattedTime)]

buildSigningKey(c) ==
    [c EXCEPT !.signingKey = createSignature(c.formattedTime, c.credValues.ClientSecret)]

\* a string-to-sign with the content hash before the canonical headers
buildSigningData_HashFirst(c, r) ==
    [c EXCEPT !.signingData =
        Join(<<r.Method, r.URL.Scheme, r.URL.Host, c.pathQuery, c.contentHash,
               c.canonicalHeaders, c.authHeaders>>, "\t")]

buildSigningData(c, r) ==
    [c EXCEPT !.signingData =
        Join(<<r.Method, r.URL.Scheme, r.URL.Host, c.pathQuery, c.canonicalHeaders,
               c.contentHash, c.authHeaders>>, "\t")]

\* authentication.go, lines 146-151: the first assignment is overwritten
buildPathQuery_authentication(c, r) ==
    [c EXCEPT !.pathQuery = r.URL.Path \o "?" \o r.URL.RawQuery]

buildPathQuery(c, r) ==
    IF r.URL.RawQuery = "" THEN [c EXCEPT !.pathQuery = r.URL.Path]
    ELSE [c EXCEPT !.pathQuery = r.URL.Path \o "?" \o r.URL.RawQuery]

RECURSIVE stringMinifierLoop(_, _)
stringMinifierLoop(in, white) ==
    IF in = "" THEN ""
    ELSE IF IsSpace(Char(in, 1))
         THEN (IF white THEN "" ELSE " ") \o stringMinifierLoop(From(in, 1), TRUE)
         ELSE Char(in, 1) \o stringMinifierLoop(From(in, 1), FALSE)

\* a minifier that turns each whitespace character into a space of its own
RECURSIVE stringMinifier_KeepsRuns(_)
stringMinifier_KeepsRuns(in) ==
    IF in = "" THEN ""
    ELSE (IF IsSpace(Char(in, 1)) THEN " " ELSE Char(in, 1))
         \o stringMinifier_KeepsRuns(From(in, 1))

stringMinifier(in) == stringMinifierLoop(in, FALSE)

\* every header of the request contributes an entry, listed or not
HeaderEntries_All(k, v, signs) ==
    <<ToLower(k) \o ":" \o ToLower(stringMinifier(TrimSpace(v)))>>

\* the entries that header k contributes: one for each element of the list
\* that is the same string as k
RECURSIVE HeaderEntries(_, _, _)
HeaderEntries(k, v, signs) ==
    IF signs = <<>> THEN <<>>
    ELSE (IF Head(signs) = k
          THEN <<ToLower(k) \o ":" \o ToLower(stringMinifier(TrimSpace(v)))>>
          ELSE <<>>)
         \o HeaderEntries(k, v, Tail(signs))

RECURSIVE sortedHeader(_, _, _)
sortedHeader(keys, h, signs) ==
    IF keys = <<>> THEN <<>>
    ELSE HeaderEntries(Head(keys), h[Head(keys)], signs) \o sortedHeader(Tail(keys), h, signs)

buildCanonicalHeaders(c, r) ==
    [c EXCEPT !.canonicalHeaders =
        Join(sortedHeader(SortStrings(DOMAIN r.Header), r.Header, c.headersToSign), "\t")]

\* the request after lines 247-251, the bytes read from its Body, and the
\* hash; preparedBody[0:maxBody] panics when maxBody is negative
buildContentHash(c, r) ==
    LET read == IF r.Body.nil THEN [bytes |-> "", body |-> r.Body] ELSE ReadAll(r.Body)
        r1 == IF r.Body.nil THEN r ELSE [r EXCEPT !.Body = NewBuffer(read.bytes)]
        preparedBody == read.bytes
    IN  IF r.Method = "POST" /\ Len(preparedBody) > 0
        THEN IF Len(preparedBody) > c.maxBody
             THEN IF c.maxBody < 0
                  THEN [ctx |-> c, req |-> r1, panic |-> TRUE]
                  ELSE [ctx |-> [c EXCEPT !.contentHash =
                                    Sum256Base64(SubSeq(preparedBody, 1, c.maxBody))],
                        req |-> r1, panic |-> FALSE]
             ELSE [ctx |-> [c EXCEPT !.contentHash = Sum256Base64(preparedBody)],
                   req |-> r1, panic |-> FALSE]
        ELSE [ctx |-> [c EXCEPT !.contentHash = ""], req |-> r1, panic |-> FALSE]

buildAuthHeaders(c) ==
    [c EXCEPT !.authHeaders =
        "EG1-HMAC-SHA256 client_token=" \o c.credValues.ClientToken
        \o ";access_token=" \o c.credValues.AccessToken
        \o ";timestamp=" \o c.formattedTime \o ";nonce=" \o c.nonce \o ";"]

\* the signature is also printed (fmt.Println, line 276)
buildSignedAuthHeaders(c) ==
    LET signature == createSignature(c.signingData, c.signingKey)
    IN  [c EXCEPT !.signedAuthHeaders = c.authHeaders \o "signature=" \o signature,
                  !.stdout = Append(@, signature)]

\* build, for the clock reading now and the random nonce u: the context and
\* the request when it returns or panics
build(file, c, r, now, u) ==
    IF file = "authentication.go"
    THEN LET c1 == buildPathQuery_authentication(buildNonce(buildTime(c, now), u), r)
             b == buildContentHash(buildSigningKey(c1), r)
             c2 == buildSignedAuthHeaders(buildSigningData(buildAuthHeaders(b.ctx), b.req))
         IN  [ctx |-> [c2 EXCEPT !.stdout = c.stdout],
              req |-> [b.req EXCEPT !.Header = HeaderSet(@, "Authorization", c2.signedAuthHeaders)],
              panic |-> FALSE]
    ELSE LET c1 == IF c.formattedTime = "" THEN buildTime(c, now) ELSE c
             c2 == IF c1.nonce = "" THEN buildNonce(c1, u) ELSE c1
             b == buildContentHash(buildCanonicalHeaders(buildPathQuery(c2, r), r), r)
             c3 == buildSignedAuthHeaders(
                       buildSigningData(buildSigningKey(buildAuthHeaders(b.ctx)), b.req))
         IN  IF b.panic THEN b
             ELSE [ctx |-> c3,
                   req |-> [b.req EXCEPT !.Header =
                               HeaderSet(@, "Authorization", c3.signedAuthHeaders)],
                   panic |-> FALSE]

-----------------------------------------------------------------------------
(* The Credentials cache *)

\* NewCredentials: the zero cached value and forceRefresh = true
NewCredentials == [creds |-> ZeroAuth, forceRefresh |-> TRUE]

\* isExpired that ignores the provider
isExpired_FlagOnly(fr, k, p) == fr

\* Credentials.isExpired
isExpired(fr, k, p) == fr \/ ProviderIsExpired(k, p)

\* Get that clears forceRefresh whatever Retrieve returned
GetRetrieved_ClearsOnError(c, f, r) ==
    IF r.err # NoErr
    THEN [creds |-> c, forceRefresh |-> FALSE, val |-> ZeroAuth, err |-> r.err]
    ELSE [creds |-> r.val, forceRefresh |-> FALSE, val |-> r.val, err |-> NoErr]

\* Get that returns the cached value along with the provider's error
GetRetrieved_ReturnsStale(c, f, r) ==
    IF r.err # NoErr
    THEN [creds |-> c, forceRefresh |-> f, val |-> c, err |-> r.err]
    ELSE [creds |-> r.val, forceRefresh |-> FALSE, val |-> r.val, err |-> NoErr]

\* Get that merges the retrieved value into the cached one: a Host already
\* cached is kept
GetRetrieved_Merges(c, f, r) ==
    LET m == IF c.Host # "" THEN [r.val EXCEPT !.Host = c.Host] ELSE r.val
    IN  IF r.err # NoErr
        THEN [creds |-> c, forceRefresh |-> f, val |-> ZeroAuth, err |-> r.err]
        ELSE [creds |-> m, forceRefresh |-> FALSE, val |-> m, err |-> NoErr]

\* Get that stores whatever Retrieve returned, error or not
GetRetrieved_StoresOnError(c, f, r) ==
    IF r.err # NoErr
    THEN [creds |-> r.val, forceRefresh |-> f, val |-> ZeroAuth, err |-> r.err]
    ELSE [creds |-> r.val, forceRefresh |-> FALSE, val |-> r.val, err |-> NoErr]

\* Get, lines 76-85, once Retrieve has returned r: the cache afterwards and
\* what Get returns.
GetRetrieved(c, f, r) ==
    IF r.err # NoErr
    THEN [creds |-> c, forceRefresh |-> f, val |-> ZeroAuth, err |-> r.err]
    ELSE [creds |-> r.val, forceRefresh |-> FALSE, val |-> r.val, err |-> NoErr]

\* Get without the second check: whoever gets the exclusive lock retrieves
GetMustRetrieve_NoRecheck(fr, k, p) == TRUE

\* Get, line 76: under the exclusive lock, whether Retrieve is called
GetMustRetrieve(fr, k, p) == isExpired(fr, k, p)

\* Expire that leaves the flag as it is
ExpireSet_Keeps(fr) == fr

\* Expire, line 97
ExpireSet(fr) == TRUE

(* sync.RWMutex: w is the caller that has taken the writers' mutex and
   announced itself (0: none); it holds the exclusive lock once readers is
   empty. A caller that asks for the read lock while a writer is announced
   waits in rwait and is let in by that writer's Unlock. *)
RWMutex == [w |-> 0, readers |-> {}, rwait |-> {}]

\* RLock that admits one reader at a time
RLock_Exclusive(m, t) ==
    IF m.w = 0 /\ m.readers = {} THEN [m EXCEPT !.readers = @ \cup {t}]
    ELSE [m EXCEPT !.rwait = @ \cup {t}]

\* RLock that lets a reader in while a writer is announced or holds the lock
RLock_IgnoresWriter(m, t) == [m EXCEPT !.readers = @ \cup {t}]

RLock(m, t) ==
    IF m.w = 0 THEN [m EXCEPT !.readers = @ \cup {t}]
    ELSE [m EXCEPT !.rwait = @ \cup {t}]

RUnlock(m, t) == [m EXCEPT !.readers = @ \ {t}]

Unlock(m) == [m EXCEPT !.w = 0, !.readers = m.rwait, !.rwait = {}]

Callers == DOMAIN pc

NoLoc == [mark |-> 0, first |-> FALSE, afterExpire |-> FALSE]

NoRes ==
    [op |-> "none", val |-> ZeroAuth, err |-> NoErr, b |-> FALSE,
     retrieved |-> FALSE, provVal |-> ZeroAuth, provErr |-> NoErr,
     expiredAfter |-> FALSE, first |-> FALSE, afterExpire |-> FALSE,
     mark |-> 0, seq |-> 0, force |-> FALSE, provExpired |-> FALSE,
     hdr |-> NilHeader, signErr |-> NoErr]

\* caller t is inside Sign
InSign(t) == ctx.phase = "Get" /\ ctx.by = t

\* caller t is inside NewClient, inside NewRequest
InNewClient(t) == ctx.phase = "NewClient" /\ ctx.by = t

InNewRequest(t) == ctx.phase = "NewRequest" /\ ctx.by = t

\* a caller starts a call of the cache, of the Signer or of the Client: it
\* may, and it is at rest
MayCall(t) ==
    /\ pc[t] = "idle" /\ ~InSign(t) /\ ~InNewClient(t) /\ ~InNewRequest(t)
    /\ budget.calls[t] > 0 /\ budget.total > 0

Spend(t) == [budget EXCEPT !.calls[t] = @ - 1, !.total = @ - 1]

\* Get, line 63: c.m.RLock()
GetRLock(t) ==
    /\ MayCall(t)
    /\ budget' = Spend(t)
    /\ rw' = RLock(rw, t)
    /\ pc' = [pc EXCEPT ![t] = "Get_fast"]
    /\ loc' = [loc EXCEPT ![t] = [mark |-> g.expireMark, first |-> g.nGet = 0,
                                  afterExpire |-> g.nExpire > 0]]
    /\ g' = [g EXCEPT !.nGet = @ + 1]
    /\ UNCHANGED <<kind, env, fs, homeOK, prov, creds, forceRefresh, res,
                   signer, req, ctx, client>>

\* Get, lines 64-69: the check under the read lock
GetFast(t) ==
    /\ pc[t] = "Get_fast"
    /\ t \in rw.readers
    /\ rw' = RUnlock(rw, t)
    /\ IF ~isExpired(forceRefresh, kind, prov)
       THEN /\ pc' = [pc EXCEPT ![t] = "idle"]
            /\ res' = [res EXCEPT ![t] =
                  [NoRes EXCEPT !.op = "Get", !.val = creds, !.err = NoErr,
                                !.first = loc[t].first, !.mark = loc[t].mark,
                                !.afterExpire = loc[t].afterExpire,
                                !.seq = g.credsSeq, !.force = forceRefresh,
                                !.expiredAfter = isExpired(forceRefresh, kind, prov)]]
       ELSE /\ pc' = [pc EXCEPT ![t] = "Get_Lock"]
            /\ res' = res
    /\ UNCHANGED <<kind, env, fs, homeOK, prov, creds, forceRefresh, loc, g, budget,
                   signer, req, ctx, client>>

\* Get, line 73: c.m.Lock(), the writers' mutex
GetLock(t) ==
    /\ pc[t] = "Get_Lock"
    /\ rw.w = 0
    /\ rw' = [rw EXCEPT !.w = t]
    /\ pc' = [pc EXCEPT ![t] = "Get_slow"]
    /\ UNCHANGED <<kind, env, fs, homeOK, prov, creds, forceRefresh, loc, res, g, budget,
                   signer, req, ctx, client>>

\* Get, line 76: the second check, with the exclusive lock held; either
\* Retrieve is entered or the cached value is returned (lines 85, 74)
GetSlow(t) ==
    /\ pc[t] = "Get_slow"
    /\ rw.w = t /\ rw.readers = {}
    /\ IF GetMustRetrieve(forceRefresh, kind, prov)
       THEN /\ prov' = RetrieveEnter(kind, prov)
            /\ pc' = [pc EXCEPT ![t] = "Get_Retrieve"]
            /\ g' = [g EXCEPT !.nRetrieve = @ + 1]
            /\ UNCHANGED <<rw, res>>
       ELSE /\ rw' = Unlock(rw)
            /\ pc' = [pc EXCEPT ![t] = "idle"]
            /\ res' = [res EXCEPT ![t] =
                  [NoRes EXCEPT !.op = "Get", !.val = creds, !.err = NoErr,
                                !.first = loc[t].first, !.mark = loc[t].mark,
                                !.afterExpire = loc[t].afterExpire,
                                !.seq = g.credsSeq, !.force = forceRefresh,
                                !.expiredAfter = isExpired(forceRefresh, kind, prov)]]
            /\ UNCHANGED <<prov, g>>
    /\ UNCHANGED <<kind, env, fs, homeOK, creds, forceRefresh, loc, budget,
                   signer, req, ctx, client>>

\* Get, lines 77-85 and the deferred Unlock: Retrieve returns
GetRetrieve(t) ==
    /\ pc[t] = "Get_Retrieve"
    /\ LET r == RetrieveBody(kind, prov, env, fs, homeOK, g.nAlloc + 1)
           c == GetRetrieved(creds, forceRefresh, r)
           seq == IF r.err = NoErr THEN g.nRetrieve ELSE g.credsSeq
       IN  /\ prov' = r.prov
           /\ creds' = c.creds
           /\ forceRefresh' = c.forceRefresh
           /\ res' = [res EXCEPT ![t] =
                 [NoRes EXCEPT !.op = "Get", !.val = c.val, !.err = c.err,
                               !.retrieved = TRUE, !.provVal = r.val, !.provErr = r.err,
                               !.first = loc[t].first, !.mark = loc[t].mark,
                               !.afterExpire = loc[t].afterExpire,
                               !.seq = seq, !.force = c.forceRefresh,
                               !.expiredAfter = isExpired(c.forceRefresh, kind, r.prov)]]
           /\ g' = [g EXCEPT !.credsSeq = seq,
                             !.installed = IF r.err = NoErr THEN r.val ELSE @,
                             !.nAlloc = IF r.err.alloc > 0 THEN r.err.alloc ELSE @,
                             !.lastRet = [by |-> "Get", val |-> r.val, err |-> r.err,
                                          env |-> env, prov |-> r.prov]]
    /\ rw' = Unlock(rw)
    /\ pc' = [pc EXCEPT ![t] = "idle"]
    /\ UNCHANGED <<kind, env, fs, homeOK, loc, budget,
                   signer, req, ctx, client>>

Get(t) == GetRLock(t) \/ GetFast(t) \/ GetLock(t) \/ GetSlow(t) \/ GetRetrieve(t)

\* Expire, line 94: c.m.Lock(), the writers' mutex
ExpireLock(t) ==
    /\ MayCall(t)
    /\ rw.w = 0
    /\ budget' = Spend(t)
    /\ rw' = [rw EXCEPT !.w = t]
    /\ pc' = [pc EXCEPT ![t] = "Expire_set"]
    /\ UNCHANGED <<kind, env, fs, homeOK, prov, creds, forceRefresh, loc, res, g,
                   signer, req, ctx, client>>

\* Expire, lines 97 and 95, with the exclusive lock held
ExpireDone(t) ==
    /\ pc[t] = "Expire_set"
    /\ rw.w = t /\ rw.readers = {}
    /\ forceRefresh' = ExpireSet(forceRefresh)
    /\ rw' = Unlock(rw)
    /\ pc' = [pc EXCEPT ![t] = "idle"]
    /\ res' = [res EXCEPT ![t] = [NoRes EXCEPT !.op = "Expire"]]
    /\ g' = [g EXCEPT !.nExpire = @ + 1, !.expireMark = g.nRetrieve]
    /\ UNCHANGED <<kind, env, fs, homeOK, prov, creds, loc, budget,
                   signer, req, ctx, client>>

Expire(t) == ExpireLock(t) \/ ExpireDone(t)

\* IsExpired, line 106: c.m.RLock()
IsExpiredRLock(t) ==
    /\ MayCall(t)
    /\ budget' = Spend(t)
    /\ rw' = RLock(rw, t)
    /\ pc' = [pc EXCEPT ![t] = "IsExpired_read"]
    /\ UNCHANGED <<kind, env, fs, homeOK, prov, creds, forceRefresh, loc, res, g,
                   signer, req, ctx, client>>

\* IsExpired, lines 109 and 107
IsExpiredRead(t) ==
    /\ pc[t] = "IsExpired_read"
    /\ t \in rw.readers
    /\ rw' = RUnlock(rw, t)
    /\ pc' = [pc EXCEPT ![t] = "idle"]
    /\ res' = [res EXCEPT ![t] =
          [NoRes EXCEPT !.op = "IsExpired", !.b = isExpired(forceRefresh, kind, prov),
                        !.force = forceRefresh,
                        !.provExpired = ProviderIsExpired(kind, prov)]]
    /\ UNCHANGED <<kind, env, fs, homeOK, prov, creds, forceRefresh, loc, g, budget,
                   signer, req, ctx, client>>

IsExpired(t) == IsExpiredRLock(t) \/ IsExpiredRead(t)

-----------------------------------------------------------------------------
(* Calls made on the provider itself, and the environment *)

\* no caller is inside a call of the cache
Quiet == \A t \in Callers : pc[t] = "idle"

\* provider.Retrieve() called directly (as the provider tests do), between
\* calls of the cache
ProviderRetrieve(t) ==
    /\ Quiet
    /\ MayCall(t)
    /\ budget' = Spend(t)
    /\ LET r == RetrieveBody(kind, RetrieveEnter(kind, prov), env, fs, homeOK, g.nAlloc + 1)
       IN  /\ prov' = r.prov
           /\ res' = [res EXCEPT ![t] =
                 [NoRes EXCEPT !.op = "Retrieve", !.val = r.val, !.err = r.err,
                               !.provVal = r.val, !.provErr = r.err]]
           /\ g' = [g EXCEPT !.nAlloc = IF r.err.alloc > 0 THEN r.err.alloc ELSE @,
                             !.lastRet = [by |-> "Retrieve", val |-> r.val, err |-> r.err,
                                          env |-> env, prov |-> r.prov]]
    /\ UNCHANGED <<kind, env, fs, homeOK, creds, forceRefresh, rw, pc, loc,
                   signer, req, ctx, client>>

\* the values os.Setenv gives a variable
EnvValues(v) ==
    CASE v = "AKAMAI_ENVRC_FILE" -> {"", "f1"}
      [] v = "AKAMAI_PROFILE" -> {"", "p1"}
      [] OTHER -> {"", "a", "b"}

\* the variables the provider of kind k reads
ReadBy(k) ==
    CASE k = "env" -> CredVars
      [] k = "shared" -> FileVars
      [] OTHER -> {}

\* os.Setenv(v, x), by the caller of the package, at any time
Setenv(v, x) ==
    /\ budget.setenv > 0
    /\ v \in ReadBy(kind)
    /\ x \in EnvValues(v)
    /\ env[v] # x
    /\ env' = [env EXCEPT ![v] = x]
    /\ budget' = [budget EXCEPT !.setenv = @ - 1]
    /\ UNCHANGED <<kind, fs, homeOK, prov, creds, forceRefresh, rw, pc, loc, res, g,
                   signer, req, ctx, client>>

\* stub.expired = b (credentials_test.go, lines 54 and 68), between calls
StubSetExpired(b) ==
    /\ kind = "stub"
    /\ Quiet
    /\ budget.setenv > 0
    /\ prov.expired # b
    /\ prov' = [prov EXCEPT !.expired = b]
    /\ budget' = [budget EXCEPT !.setenv = @ - 1]
    /\ UNCHANGED <<kind, env, fs, homeOK, creds, forceRefresh, rw, pc, loc, res, g,
                   signer, req, ctx, client>>

-----------------------------------------------------------------------------
(* Signer.Sign *)

\* Sign, line 47: s.Credentials.Get() is entered (Get, line 63); the steps
\* of Get follow. The caller passes a reader of the request's data as
\* body, as the test of the Signer does.
SignGet(t) ==
    /\ MayCall(t)
    /\ budget' = Spend(t)
    /\ rw' = RLock(rw, t)
    /\ pc' = [pc EXCEPT ![t] = "Get_fast"]
    /\ loc' = [loc EXCEPT ![t] = [mark |-> g.expireMark, first |-> g.nGet = 0,
                                  afterExpire |-> g.nExpire > 0]]
    /\ g' = [g EXCEPT !.nGet = @ + 1]
    /\ ctx' = [ctx EXCEPT !.by = t, !.phase = "Get", !.orig = req, !.stdout = <<>>,
                           !.Body = IF req.Body.nil THEN NilBody
                                    ELSE NewBuffer(From(req.Body.buf, req.Body.off))]
    /\ UNCHANGED <<kind, env, fs, homeOK, prov, creds, forceRefresh, res, signer, req,
                   client>>

\* a Sign that signs with whatever Get returned, error or not
SignReturn_IgnoresErr(s, c, r, val, err, now, u) ==
    LET b == build(s.file, NewSigningCtx(c, s, val), r, now, u)
    IN  [ctx |-> b.ctx, req |-> b.req, panic |-> b.panic,
         hdr |-> b.ctx.SignedHeaderVals, err |-> err]

\* what Sign returns once Get has returned (val, err), for the clock
\* reading now and the random nonce u
SignReturn(s, c, r, val, err, now, u) ==
    IF err # NoErr
    THEN [ctx |-> [NoCtx EXCEPT !.by = c.by, !.phase = c.phase, !.orig = c.orig,
                                !.stdout = c.stdout, !.Body = c.Body],
          req |-> r, panic |-> FALSE, hdr |-> Header(<<>>), err |-> err]
    ELSE LET b == build(s.file, NewSigningCtx(c, s, val), r, now, u)
         IN  [ctx |-> b.ctx, req |-> b.req, panic |-> b.panic,
              hdr |-> b.ctx.SignedHeaderVals, err |-> NoErr]

\* Sign, lines 48-73: Get has returned; the context is built and the
\* request signed, or the error of Get is returned, or build panics
SignBuild(t) ==
    /\ InSign(t)
    /\ pc[t] = "idle"
    /\ \E now \in Clock : \E u \in UUIDs :
          \E b \in {SignReturn(signer, ctx, req, res[t].val, res[t].err, now, u)} :
              /\ req' = b.req
              /\ ctx' = [b.ctx EXCEPT !.phase = IF b.panic THEN "panic" ELSE "returned"]
              /\ pc' = [pc EXCEPT ![t] = IF b.panic THEN "panic" ELSE "idle"]
              /\ res' = [res EXCEPT ![t] =
                    IF b.panic THEN [NoRes EXCEPT !.op = "panic"]
                    ELSE [NoRes EXCEPT !.op = "Sign", !.hdr = b.hdr, !.err = b.err]]
    /\ UNCHANGED <<kind, env, fs, homeOK, prov, creds, forceRefresh, rw, loc, g, budget,
                   signer, client>>

Sign(t) == SignGet(t) \/ SignBuild(t)

-----------------------------------------------------------------------------
(* The Client *)

\* the values a caller passes as body: nil, a string, and a value that
\* JSON cannot hold (a channel)
NilValue == [kind |-> "nil", s |-> ""]
StringValue(x) == [kind |-> "string", s |-> x]
ChanValue == [kind |-> "chan", s |-> ""]

ErrUnsupportedType == ErrVar("json: unsupported type: chan int")

\* json.NewEncoder(buf).Encode(v) with SetEscapeHTML(false): the text
\* written (the value in quotes, then a newline) and the error
Encode(v) ==
    IF v.kind = "chan" THEN [out |-> "", err |-> ErrUnsupportedType]
    ELSE [out |-> "\"" \o v.s \o "\"\n", err |-> NoErr]

ErrInvalidEscape == ErrVar("parse: invalid URL escape")

HexDigits == {"0", "1", "2", "3", "4", "5", "6", "7", "8", "9",
              "a", "b", "c", "d", "e", "f", "A", "B", "C", "D", "E", "F"}

\* a "%" of s is not followed by two hexadecimal digits
BadEscape(x) ==
    \E i \in 1..Len(x) :
        /\ Char(x, i) = "%"
        /\ \/ i + 2 > Len(x)
           \/ Char(x, i + 1) \notin HexDigits
           \/ Char(x, i + 2) \notin HexDigits

\* base.Parse(ref) for a base whose path ends in "/" and a relative path
\* with an optional query: the URL and the error
ParseRef(base, ref) ==
    LET i == Index(ref, "?")
        path == IF i = 0 THEN ref ELSE SubSeq(ref, 1, i - 1)
        query == IF i = 0 THEN "" ELSE From(ref, i)
    IN  IF BadEscape(path) THEN [url |-> URL("", "", "", ""), err |-> ErrInvalidEscape]
        ELSE [url |-> URL(base.Scheme, base.Host, base.Path \o path, query), err |-> NoErr]

\* fmt.Errorf: a new error value with the text of err in it
ErrNewClient(err) ==
    ErrVar("Could not retrieve Akamai authentication credentials: " \o err.name)

ErrBaseURL == ErrVar("BaseURL must have a trailing slash")

\* NewClient, line 65: cc.Get() is entered
NewClientGet(t) ==
    /\ client = NoClient
    /\ MayCall(t)
    /\ budget' = Spend(t)
    /\ rw' = RLock(rw, t)
    /\ pc' = [pc EXCEPT ![t] = "Get_fast"]
    /\ loc' = [loc EXCEPT ![t] = [mark |-> g.expireMark, first |-> g.nGet = 0,
                                  afterExpire |-> g.nExpire > 0]]
    /\ g' = [g EXCEPT !.nGet = @ + 1]
    /\ ctx' = [ctx EXCEPT !.by = t, !.phase = "NewClient"]
    /\ UNCHANGED <<kind, env, fs, homeOK, prov, creds, forceRefresh, res, signer, req,
                   client>>

\* NewClient, lines 66-91: Get has returned; the error is reported, or the
\* Client is made with https://{creds.Host}/ as BaseURL
NewClientReturn(t) ==
    /\ InNewClient(t)
    /\ pc[t] = "idle"
    /\ ctx' = [ctx EXCEPT !.phase = "none"]
    /\ IF res[t].err # NoErr
       THEN /\ client' = client
            /\ res' = [res EXCEPT ![t] =
                  [NoRes EXCEPT !.op = "NewClient", !.err = ErrNewClient(res[t].err)]]
       ELSE /\ client' = [BaseURL |-> URL("https", res[t].val.Host, "/", ""),
                          UserAgent |-> userAgent]
            /\ res' = [res EXCEPT ![t] = [NoRes EXCEPT !.op = "NewClient"]]
    /\ UNCHANGED <<kind, env, fs, homeOK, prov, creds, forceRefresh, rw, pc, loc, g, budget,
                   signer, req>>

NewClient(t) == NewClientGet(t) \/ NewClientReturn(t)

\* what NewRequest has done when it calls Sign (lines 96-127), or the error
\* it returns before: the request that http.NewRequest made around buf,
\* with buf read to its end by ioutil.ReadAll(buf) when body is not nil,
\* and the reader of the bytes read that is passed to Sign
NewRequestPrepare(c, method, urlStr, body) ==
    LET u == ParseRef(c.BaseURL, urlStr)
        e == Encode(body)
        buf == NewBuffer(e.out)
        read == ReadAll(buf)
        none == [req |-> NoCtx.orig, body |-> NilBody]
    IN  IF ~HasSuffix(c.BaseURL.Path, "/") THEN none @@ [err |-> ErrBaseURL]
        ELSE IF u.err # NoErr THEN none @@ [err |-> u.err]
        ELSE IF body.kind # "nil" /\ e.err # NoErr THEN none @@ [err |-> e.err]
        ELSE IF body.kind = "nil"
        THEN [req |-> [Method |-> method, URL |-> u.url, Header |-> <<>>, Body |-> NilBody,
                       ContentLength |-> 0],
              body |-> NilBody, err |-> NoErr]
        ELSE [req |-> [Method |-> method, URL |-> u.url, Header |-> <<>>, Body |-> read.body,
                       ContentLength |-> Len(e.out)],
              body |-> NewBuffer(read.bytes), err |-> NoErr]

\* NewRequest, lines 96-127: an error is returned, or the request is made
\* and signer.Sign is entered (Get, line 63)
NewRequestSign(t, method, urlStr, body) ==
    /\ client # NoClient
    /\ MayCall(t)
    /\ budget' = Spend(t)
    /\ \E p \in {NewRequestPrepare(client, method, urlStr, body)} :
          IF p.err # NoErr
          THEN /\ req' = p.req
               /\ res' = [res EXCEPT ![t] = [NoRes EXCEPT !.op = "NewRequest", !.err = p.err]]
               /\ UNCHANGED <<rw, pc, loc, g, ctx, signer>>
          ELSE /\ req' = p.req
               /\ signer' \in {NewSigner("signer"), NewSigner("authentication.go")}
               /\ rw' = RLock(rw, t)
               /\ pc' = [pc EXCEPT ![t] = "Get_fast"]
               /\ loc' = [loc EXCEPT ![t] = [mark |-> g.expireMark, first |-> g.nGet = 0,
                                             afterExpire |-> g.nExpire > 0]]
               /\ g' = [g EXCEPT !.nGet = @ + 1]
               /\ ctx' = [ctx EXCEPT !.by = t, !.phase = "NewRequest", !.orig = p.req,
                                      !.stdout = <<>>, !.Body = p.body]
               /\ res' = res
    /\ UNCHANGED <<kind, env, fs, homeOK, prov, creds, forceRefresh, client>>

\* NewRequest, lines 127-140: what is returned once Sign has returned err
\* and left the request as r; the value and the error of Sign are dropped
NewRequestResult(r, err) == [req |-> r, err |-> NoErr]

\* NewRequest, lines 127-140: Sign returns; Content-Type and User-Agent
\* are set and the request is returned
NewRequestReturn(t) ==
    /\ InNewRequest(t)
    /\ pc[t] = "idle"
    /\ \E now \in Clock : \E u \in UUIDs :
          \E b \in {SignReturn(signer, ctx, req, res[t].val, res[t].err, now, u)} :
              LET r1 == IF ctx.Body.nil THEN b.req
                        ELSE [b.req EXCEPT !.Header =
                                 HeaderSet(@, "Content-Type", "application/json")]
                  r2 == IF client.UserAgent = "" THEN r1
                        ELSE [r1 EXCEPT !.Header = HeaderSet(@, "User-Agent", client.UserAgent)]
                  out == NewRequestResult(r2, b.err)
              IN  /\ req' = out.req
                  /\ ctx' = [b.ctx EXCEPT !.phase = IF b.panic THEN "panic" ELSE "returned"]
                  /\ pc' = [pc EXCEPT ![t] = IF b.panic THEN "panic" ELSE "idle"]
                  /\ res' = [res EXCEPT ![t] =
                        IF b.panic THEN [NoRes EXCEPT !.op = "panic"]
                        ELSE [NoRes EXCEPT !.op = "NewRequest", !.err = out.err,
                                           !.signErr = b.err]]
    /\ UNCHANGED <<kind, env, fs, homeOK, prov, creds, forceRefresh, rw, loc, g, budget,
                   signer, client>>

NewRequest(t, method, urlStr, body) ==
    NewRequestSign(t, method, urlStr, body) \/ NewRequestReturn(t)

-----------------------------------------------------------------------------
(* Configurations: a provider as constructed, with the environment and the
   files it is constructed in *)

Config(k, e, files, home, p) ==
    [kind |-> k, env |-> e, fs |-> files, homeOK |-> home, prov |-> p]

NoFiles == [f \in Paths |-> NoFile]
AllKeys == [k \in Keys |-> "v"]
\* the file system with one file, at path
OneFile(path, secs, ks) == [f \in Paths |-> IF f = path THEN IniFile(secs, ks) ELSE NoFile]

StaticConfigs ==
    { Config("static", ClearEnv, NoFiles, TRUE, StaticProvider(AuthValue(cs, ct, at, ah, pn))) :
        cs \in {"", "cs"}, ct \in {"", "ct"}, at \in {"", "at"}, ah \in {"", "ah"},
        pn \in {"", "custom"} }

EnvConfigs ==
    { Config("env", [v \in EnvVars |-> IF v \in CredVars THEN e[v] ELSE ""],
             NoFiles, TRUE, EnvProvider) :
        e \in [CredVars -> {"", "a"}] }

\* explicit file and profile, every content of the profile's section
SharedKeyConfigs ==
    { Config("shared", ClearEnv, OneFile("f1", {"p1"}, ks), TRUE,
             SharedCredentialsProvider("f1", "p1")) :
        ks \in [Keys -> KeyVals] }

\* complete sections, every way of naming the file and the profile
SharedNameConfigs ==
    { Config("shared",
             [v \in EnvVars |-> IF v = "AKAMAI_ENVRC_FILE" THEN ef
                                ELSE IF v = "AKAMAI_PROFILE" THEN ep ELSE ""],
             files, home, SharedCredentialsProvider(fn, pr)) :
        ef \in {"", "f1"}, ep \in {"", "p1"}, fn \in {"", "f1"}, pr \in {"", "p1"},
        home \in BOOLEAN,
        files \in {NoFiles} \cup
                  { OneFile(path, secs, AllKeys) :
                      path \in Paths, secs \in {{"default"}, {"p1"}, {"default", "p1"}} } }

SharedConfigs == SharedKeyConfigs \cup SharedNameConfigs

StubConfigs ==
    { Config("stub", ClearEnv, NoFiles, TRUE, stubProvider(av, x, e)) :
        av \in {ZeroAuth, AuthValue("client_secret", "client_token", "access_token", "host", "")},
        x \in BOOLEAN, e \in {NoErr, ErrStub} }

Configs == StaticConfigs \cup EnvConfigs \cup SharedConfigs \cup StubConfigs

\* what the first Retrieve of a configuration returns
FirstRetrieve(c) == RetrieveBody(c.kind, RetrieveEnter(c.kind, c.prov), c.env, c.fs, c.homeOK, 1)

OKConfigs == { c \in Configs : FirstRetrieve(c).err = NoErr }
FailConfigs == { c \in Configs : FirstRetrieve(c).err # NoErr }

-----------------------------------------------------------------------------
(* Specifications *)

NoHistory ==
    [nRetrieve |-> 0, nGet |-> 0, nExpire |-> 0, expireMark |-> 0, credsSeq |-> 0,
     nAlloc |-> 0, installed |-> ZeroAuth, newProv |-> EnvProvider,
     lastRet |-> [by |-> "none", val |-> ZeroAuth, err |-> NoErr, env |-> ClearEnv,
                  prov |-> EnvProvider]]

\* NewCredentials(provider) for the provider of configuration c, used by n
\* callers that may each make `calls` calls and `total` calls together, with
\* `sets` changes around them
InitWith(c, n, calls, total, sets) ==
    /\ kind = c.kind
    /\ env = c.env
    /\ fs = c.fs
    /\ homeOK = c.homeOK
    /\ prov = c.prov
    /\ creds = NewCredentials.creds
    /\ forceRefresh = NewCredentials.forceRefresh
    /\ rw = RWMutex
    /\ pc = [t \in 1..n |-> "idle"]
    /\ loc = [t \in 1..n |-> NoLoc]
    /\ res = [t \in 1..n |-> NoRes]
    /\ g = [NoHistory EXCEPT !.newProv = c.prov]
    /\ budget = [calls |-> [t \in 1..n |-> calls], total |-> total, setenv |-> sets]

\* no Signer and no Client is used: a zero Signer, no request
NoSigning ==
    /\ signer = NewSigner("signer")
    /\ req = NoCtx.orig
    /\ ctx = NoCtx
    /\ client = NoClient

\* One caller: any sequence of Get, Expire, IsExpired and Retrieve calls,
\* with changes of the environment between and during them.
InitSeq ==
    /\ \E c \in Configs : InitWith(c, 1, MaxSeqCalls, MaxSeqCalls, MaxSetenv)
    /\ NoSigning

NextSeq ==
    \/ \E t \in Callers : Get(t)
    \/ \E t \in Callers : Expire(t)
    \/ \E t \in Callers : IsExpired(t)
    \/ \E t \in Callers : ProviderRetrieve(t)
    \/ \E v \in EnvVars : \E x \in EnvValues(v) : Setenv(v, x)
    \/ \E b \in BOOLEAN : StubSetExpired(b)

SpecSeq == InitSeq /\ [][NextSeq]_vars

\* A few configurations of each provider, for the runs with several callers.
SmallConfigs ==
    { c \in StaticConfigs :
        /\ c.prov.av.ProviderName = ""
        /\ c.prov.av.ClientToken # "" /\ c.prov.av.AccessToken # "" /\ c.prov.av.Host # "" }
    \cup { c \in EnvConfigs :
        /\ c.env["AKAMAI_CLIENT_SECRET"] # "" /\ c.env["AKAMAI_CLIENT_TOKEN"] # ""
        /\ c.env["AKAMAI_ACCESS_TOKEN"] # "" }
    \cup { c \in SharedKeyConfigs :
        /\ c.fs["f1"].keys["client_secret"] = "v" /\ c.fs["f1"].keys["client_token"] = "v"
        /\ c.fs["f1"].keys["host"] = "v" /\ c.fs["f1"].keys["access_token"] # "" }
    \cup { c \in SharedNameConfigs :
        /\ c.prov.Filename = "" /\ c.prov.Profile = "" /\ c.env = ClearEnv
        /\ c.fs = OneFile(HomeEdgerc, {"default"}, AllKeys) }
    \cup { c \in StubConfigs : c.prov.av # ZeroAuth }

\* Several callers of one cache: Get, Expire and IsExpired in any
\* interleaving of their steps.
Init ==
    /\ \E c \in SmallConfigs : InitWith(c, NCallers, MaxCalls, MaxCalls, 0)
    /\ NoSigning

Next ==
    \/ \E t \in Callers : Get(t)
    \/ \E t \in Callers : Expire(t)
    \/ \E t \in Callers : IsExpired(t)

Spec == Init /\ [][Next]_vars

\* N concurrent Get() calls, one per caller, on a freshly created cache.
NextGet == \E t \in Callers : Get(t)

\* ... whose provider's Retrieve succeeds
InitGetOK ==
    /\ \E c \in OKConfigs : \E n \in 1..MaxGetters : InitWith(c, n, 1, n, 0)
    /\ NoSigning

SpecGetOK == InitGetOK /\ [][NextGet]_vars

\* ... whose provider's Retrieve fails
InitGetFail ==
    /\ \E c \in FailConfigs : \E n \in 1..MaxGetters : InitWith(c, n, 1, n, 0)
    /\ NoSigning

SpecGetFail == InitGetFail /\ [][NextGet]_vars

\* The requests and the Signers of the signing runs.
HeaderNames == {"X-Test1", "X-Test2"}

Headers ==
    { [n \in ns |-> IF n = "X-Test1" THEN v ELSE "w"] :
        ns \in SUBSET HeaderNames, v \in {"v", " A  b\t"} }

Requests ==
    { Request(m, q, h, b) :
        m \in {"GET", "POST"}, q \in {"", "a=1&b=%20"}, h \in Headers,
        b \in {NilBody, NewBuffer(""), NewBuffer("abc")} }

\* the names a caller lists in HeadersToSign
SignNames == {"X-Test1", "x-test1", "X-Test2"}

HeaderLists == UNION { [1..n -> SignNames] : n \in 0..MaxHeadersToSign }

SignerConfig(l, m, ts, n) ==
    [file |-> "signer", HeadersToSign |-> l, MaxBody |-> m, Timestamp |-> ts, Nonce |-> n]

\* the later Signer: every list with the default MaxBody and a timestamp and
\* nonce that are both fixed or both left to Sign, and every MaxBody with
\* every choice of timestamp and nonce; and the Signer of authentication.go,
\* which has no such fields
SignerConfigs ==
    { SignerConfig(l, 0, x[1], x[2]) :
        l \in HeaderLists, x \in {<<"", "">>, <<"20140321T19:34:21+0000", "nonce-xx">>} }
    \cup { SignerConfig(<<>>, m, ts, n) :
        m \in {-1, 0, 2, 3}, ts \in {"", "20140321T19:34:21+0000"}, n \in {"", "nonce-xx"} }
    \cup {NewSigner("authentication.go")}

\* the Static provider of TestCreateAuthHeader
SignConfig ==
    Config("static", ClearEnv, NoFiles, TRUE, StaticProvider(AuthValue("cs", "ct", "at", "ah", "")))

\* the steps of a Get that has been entered
GetSteps(t) == GetFast(t) \/ GetLock(t) \/ GetSlow(t) \/ GetRetrieve(t)

\* One caller signs its request, up to MaxSign times, with credentials that
\* the cache can obtain.
InitSign ==
    /\ InitWith(SignConfig, 1, MaxSign, MaxSign, 0)
    /\ signer \in SignerConfigs
    /\ req \in Requests
    /\ ctx = NoCtx
    /\ client = NoClient

NextSign ==
    \/ \E t \in Callers : Sign(t)
    \/ \E t \in Callers : GetSteps(t)

SpecSign == InitSign /\ [][NextSign]_vars

\* the Static providers with an empty field
EmptyStaticConfigs == StaticConfigs \cap FailConfigs

\* One caller: any sequence of Sign, Get, Expire and IsExpired calls on a
\* Static provider with an empty field.
InitStatic ==
    /\ \E c \in EmptyStaticConfigs : InitWith(c, 1, MaxSeqCalls, MaxSeqCalls, 0)
    /\ signer \in { s \in SignerConfigs :
                      s.HeadersToSign = <<>> /\ s.MaxBody = 0 /\ s.Timestamp = "" }
    /\ req \in { r \in Requests :
                   /\ DOMAIN r.Header = HeaderNames
                   /\ r.Body = NewBuffer("abc") /\ r.URL.RawQuery # "" }
    /\ ctx = NoCtx
    /\ client = NoClient

NextStatic ==
    \/ \E t \in Callers : Sign(t)
    \/ \E t \in Callers : Get(t)
    \/ \E t \in Callers : Expire(t)
    \/ \E t \in Callers : IsExpired(t)

SpecStatic == InitStatic /\ [][NextStatic]_vars

\* the strings of up to n characters of whitespace and letters
ValueChars == {" ", "\t", "a", "B"}

RECURSIVE StringsUpTo(_)
StringsUpTo(n) ==
    IF n = 0 THEN {""}
    ELSE LET S == StringsUpTo(n - 1) IN S \cup { x \o c : x \in S, c \in ValueChars }

HeaderValues == StringsUpTo(MaxValueLen)

\* One caller signs a GET request whose X-Test1 header has any value of up
\* to MaxValueLen characters, with or without X-Test2 beside it, both being
\* listed for signing, X-Test2 first.
InitCanon ==
    /\ InitWith(SignConfig, 1, MaxSign, MaxSign, 0)
    /\ signer = SignerConfig(<<"X-Test2", "X-Test1">>, 0, "20140321T19:34:21+0000", "nonce-xx")
    /\ \E v \in HeaderValues : \E ns \in {{"X-Test1"}, HeaderNames} :
          req = Request("GET", "", [n \in ns |-> IF n = "X-Test1" THEN v ELSE " w"], NilBody)
    /\ ctx = NoCtx
    /\ client = NoClient

SpecCanon == InitCanon /\ [][NextSign]_vars

\* the providers a Client is made with: a Static one, the Environment with
\* its four variables set, and the Shared-File provider that NewClient
\* makes when it is given no credentials, with and without its file
ClientConfigs ==
    { SignConfig,
      Config("env", [v \in EnvVars |-> IF v \in CredVars THEN "a" ELSE ""], NoFiles, TRUE,
             EnvProvider),
      Config("shared", ClearEnv, OneFile(HomeEdgerc, {"default"}, AllKeys), TRUE,
             SharedCredentialsProvider("", "default")),
      Config("shared", ClearEnv, NoFiles, TRUE, SharedCredentialsProvider("", "default")) }

\* the arguments of NewRequest
Methods == {"GET", "POST"}
URLStrs == {"config-dns/v2/zones", "config-dns/v2/zones?a=1", "%zz"}
BodyValues == {NilValue, StringValue("z"), ChanValue}

\* One caller makes a Client and requests with it, expires the cache and
\* changes the environment between the calls.
InitClient ==
    /\ \E c \in ClientConfigs : InitWith(c, 1, MaxSeqCalls, MaxSeqCalls, MaxSetenv)
    /\ NoSigning

NextClient ==
    \/ \E t \in Callers : NewClient(t)
    \/ \E t \in Callers : \E m \in Methods : \E u \in URLStrs : \E b \in BodyValues :
          NewRequest(t, m, u, b)
    \/ \E t \in Callers : GetSteps(t)
    \/ \E t \in Callers : Expire(t)
    \/ \E v \in EnvVars : \E x \in EnvValues(v) : Setenv(v, x)

SpecClient == InitClient /\ [][NextClient]_vars

-----------------------------------------------------------------------------
(* Claims *)

\* the calls of Get that have returned
Returned == { t \in Callers : res[t].op = "Get" }

\* C1: N concurrent Get() calls on a fresh cache whose provider's Retrieve
\* succeeds call Retrieve once in total, and every call returns the value
\* that Retrieve gave, with a nil error. (SpecGetOK)
C1_SingleFlightSuccess ==
    /\ g.nRetrieve <= 1
    /\ \A t \in Returned :
        /\ g.nRetrieve = 1
        /\ res[t].err = NoErr
        /\ res[t].val = g.installed
    /\ \A t, u \in Returned : res[t].val = res[u].val

\* three callers have returned, one of them after Retrieve, the others with
\* the value it installed
C1_Witness ==
    /\ Cardinality(Callers) = 3
    /\ Returned = Callers
    /\ Cardinality({ t \in Callers : res[t].retrieved }) = 1

\* C2 as stated: N concurrent Get() calls on a fresh cache whose provider's
\* Retrieve fails call Retrieve once in total and all receive the same
\* error. (SpecGetFail)
C2_SingleFlightFailure ==
    /\ g.nRetrieve <= 1
    /\ \A t \in Returned : res[t].err # NoErr
    /\ \A t, u \in Returned : res[t].err = res[u].err

\* C2 amended: each of the N Get() calls calls Retrieve itself, one at a
\* time (N calls in total), and every call returns the zero value and the
\* error of its own Retrieve; the errors of all calls name the same cause.
C2_EachGetRetrieves ==
    /\ g.nRetrieve = Cardinality(Returned) + Cardinality({ t \in Callers : pc[t] = "Get_Retrieve" })
    /\ Cardinality({ t \in Callers : pc[t] = "Get_Retrieve" }) <= 1
    /\ \A t \in Returned :
        /\ res[t].retrieved
        /\ res[t].err # NoErr
        /\ res[t].err = res[t].provErr
        /\ res[t].val = ZeroAuth
    /\ \A t, u \in Returned : res[t].err.name = res[u].err.name

\* three callers have returned, each with an error
C2_Witness ==
    /\ Cardinality(Callers) = 3
    /\ Returned = Callers
    /\ g.nRetrieve = 3
    /\ \A t \in Callers : res[t].err # NoErr

\* the calls of Get that found the cache expired and whose Retrieve failed
FailedRefresh == { t \in Returned : res[t].retrieved /\ res[t].provErr # NoErr }

C4_ExpireThenGet ==
    \A t \in Returned :
        res[t].afterExpire =>
            IF res[t].err = NoErr THEN res[t].seq > res[t].mark ELSE res[t].retrieved

\* a Get() that started after an Expire() which followed a Retrieve has
\* returned a value, the provider reporting not-expired throughout, and the
\* Retrieve was another caller's
C4_Witness ==
    \E t \in Returned :
        /\ res[t].afterExpire /\ res[t].mark >= 1 /\ res[t].err = NoErr
        /\ ~res[t].retrieved
        /\ kind = "static"

\* C5: IsExpired() returns true exactly when forceRefresh is set or the
\* provider reports expired; a newly created cache is expired, and so is a
\* cache on which Expire() was the last call. (SpecSeq)
C5_IsExpired ==
    /\ \A t \in Callers :
        res[t].op = "IsExpired" => (res[t].b <=> (res[t].force \/ res[t].provExpired))
    /\ (g.nGet = 0 /\ g.nExpire = 0) => isExpired(forceRefresh, kind, prov)
    /\ \A t \in Callers :
        (res[t].op = "Expire" /\ Quiet) => isExpired(forceRefresh, kind, prov)

\* IsExpired() has returned true for the flag alone, and has returned true
\* for the provider alone
C5_Witness ==
    \E t \in Callers :
        /\ res[t].op = "IsExpired" /\ res[t].b
        /\ ~res[t].force /\ res[t].provExpired

\* IsExpired() has returned true on a cache whose provider reports
\* not-expired
C5_WitnessFlag ==
    \E t \in Callers :
        /\ res[t].op = "IsExpired" /\ res[t].b
        /\ res[t].force /\ ~res[t].provExpired

\* C6: the first Get() on a new cache calls Retrieve; a Get() whose Retrieve
\* succeeds returns exactly the value the provider returned, leaves it as the
\* cached value and leaves forceRefresh cleared; a Get() that does not call
\* Retrieve returns the value of the last successful one. (SpecSeq)
C6_FirstGetAndInstall ==
    \A t \in Returned :
        /\ res[t].first => res[t].retrieved
        /\ (res[t].retrieved /\ res[t].provErr = NoErr) =>
              /\ res[t].err = NoErr
              /\ res[t].val = res[t].provVal
              /\ ~res[t].force
              /\ Quiet => creds = res[t].provVal
        /\ ~res[t].retrieved =>
              /\ res[t].err = NoErr
              /\ res[t].val = g.installed
              /\ g.credsSeq >= 1

\* a Get() has returned the cached value, complete with its ProviderName,
\* without calling Retrieve
C6_Witness ==
    \E t \in Returned :
        /\ ~res[t].retrieved
        /\ res[t].val.ProviderName # "" /\ res[t].val.Host # ""

\* the four fields of a value that make it usable
Complete(v) ==
    v.ClientSecret # "" /\ v.ClientToken # "" /\ v.AccessToken # "" /\ v.Host # ""

\* C7: with the Static, Environment and Shared-File providers, a value that
\* Retrieve or Get returns with a nil error has a non-empty client secret,
\* client token, access token and host. (SpecSeq)
C7_CompleteOrError ==
    \A t \in Callers :
        (kind # "stub" /\ res[t].op \in {"Get", "Retrieve"} /\ res[t].err = NoErr)
            => Complete(res[t].val)

\* a Get() on a Shared-File cache has returned the cached value
C7_Witness ==
    \E t \in Returned : kind = "shared" /\ res[t].err = NoErr /\ ~res[t].retrieved

\* no call of Retrieve is in progress
NoRetrieveInProgress == \A t \in Callers : pc[t] # "Get_Retrieve"

\* C8: the Environment and Shared-File providers are expired before the
\* first Retrieve and, after one, not expired exactly when the most recent
\* Retrieve succeeded. (SpecSeq)
C8_RetrievedIffLastSucceeded ==
    (kind \in {"env", "shared"} /\ NoRetrieveInProgress) =>
        (ProviderIsExpired(kind, prov) <=>
            (g.lastRet.by = "none" \/ g.lastRet.err # NoErr))

\* a Retrieve has failed after an earlier one succeeded
C8_Witness ==
    /\ kind = "env" /\ NoRetrieveInProgress
    /\ creds # ZeroAuth
    /\ g.lastRet.by # "none" /\ g.lastRet.err # NoErr

\* the environment that the most recent Retrieve read
ReadEnv(v) == g.lastRet.env[v]

\* C9: EnvProvider.Retrieve returns the error of the first of client secret,
\* client token, access token, host that is empty, the four errors differ,
\* and with none empty it returns the four values. (SpecSeq)
C9_FirstMissingVariable ==
    /\ Cardinality({ErrClientSecretNotFoundEnv, ErrClientTokenNotFoundEnv,
                    ErrAccessTokenNotFoundEnv, ErrAkamaiHostNotFoundEnv, NoErr}) = 5
    /\ (kind = "env" /\ g.lastRet.by # "none") =>
        /\ ReadEnv("AKAMAI_CLIENT_SECRET") = "" =>
              g.lastRet.err = ErrClientSecretNotFoundEnv
        /\ (ReadEnv("AKAMAI_CLIENT_SECRET") # "" /\ ReadEnv("AKAMAI_CLIENT_TOKEN") = "") =>
              g.lastRet.err = ErrClientTokenNotFoundEnv
        /\ (ReadEnv("AKAMAI_CLIENT_SECRET") # "" /\ ReadEnv("AKAMAI_CLIENT_TOKEN") # ""
            /\ ReadEnv("AKAMAI_ACCESS_TOKEN") = "") =>
              g.lastRet.err = ErrAccessTokenNotFoundEnv
        /\ (ReadEnv("AKAMAI_CLIENT_SECRET") # "" /\ ReadEnv("AKAMAI_CLIENT_TOKEN") # ""
            /\ ReadEnv("AKAMAI_ACCESS_TOKEN") # "" /\ ReadEnv("AKAMAI_HOST") = "") =>
              g.lastRet.err = ErrAkamaiHostNotFoundEnv
        /\ (\A v \in CredVars : ReadEnv(v) # "") =>
              /\ g.lastRet.err = NoErr
              /\ g.lastRet.val.ClientSecret = ReadEnv("AKAMAI_CLIENT_SECRET")
              /\ g.lastRet.val.ClientToken = ReadEnv("AKAMAI_CLIENT_TOKEN")
              /\ g.lastRet.val.AccessToken = ReadEnv("AKAMAI_ACCESS_TOKEN")
              /\ g.lastRet.val.Host = ReadEnv("AKAMAI_HOST")
        /\ g.lastRet.err = NoErr => \A v \in CredVars : ReadEnv(v) # ""

\* Retrieve has returned the access token's error with the host empty too
C9_Witness ==
    /\ kind = "env" /\ g.lastRet.by # "none"
    /\ g.lastRet.err = ErrAccessTokenNotFoundEnv
    /\ ReadEnv("AKAMAI_HOST") = ""

\* Retrieve has returned four values, not all the same
C9_WitnessValues ==
    /\ kind = "env" /\ g.lastRet.by # "none"
    /\ g.lastRet.err = NoErr
    /\ g.lastRet.val.Host # g.lastRet.val.ClientSecret

\* the file and the section that the most recent Retrieve of the
\* Shared-File provider read
ReadFile ==
    LET name == IF g.lastRet.prov.Filename # "" THEN g.lastRet.prov.Filename ELSE HomeEdgerc
    IN  IF name \in DOMAIN fs THEN fs[name] ELSE NoFile

ReadSection == ReadFile.exists /\ g.lastRet.prov.Profile \in ReadFile.sections

Lacks(k) == ReadSection /\ ReadFile.keys[k] \in {NoKey, ""}

\* C10: every failure of SharedCredentialsProvider.Retrieve names its cause:
\* the file's error is returned only for a missing file, the profile's only
\* for a missing section, each key's only when that key is missing or empty,
\* and the provider is left unretrieved. (SpecSeq)
C10_ErrorNamesCause ==
    (kind = "shared" /\ g.lastRet.by # "none" /\ g.lastRet.err # NoErr
     /\ g.lastRet.err.alloc = 0) =>
        /\ ~g.lastRet.prov.retrieved
        /\ g.lastRet.err \in
              {ErrSharedCredentialsNotFoundFile, ErrSharedCredentialsProfileNotFound,
               ErrClientSecretNotFoundFile, ErrClientTokenNotFoundFile,
               ErrAccessTokenNotFoundFile, ErrAkamaiHostNotFoundFile}
        /\ g.lastRet.err = ErrSharedCredentialsNotFoundFile => ~ReadFile.exists
        /\ g.lastRet.err = ErrSharedCredentialsProfileNotFound =>
              (ReadFile.exists /\ ~ReadSection)
        /\ g.lastRet.err = ErrClientSecretNotFoundFile => Lacks("client_secret")
        /\ g.lastRet.err = ErrClientTokenNotFoundFile => Lacks("client_token")
        /\ g.lastRet.err = ErrAccessTokenNotFoundFile => Lacks("access_token")
        /\ g.lastRet.err = ErrAkamaiHostNotFoundFile => Lacks("host")

\* what Retrieve returns on a provider constructed anew, as this one was,
\* in the environment and with the files of the current state
FreshResolution ==
    RetrieveBody(kind, RetrieveEnter(kind, g.newProv), env, fs, homeOK, g.nAlloc + 1)

\* the latest Retrieve was made by a Get and failed, and the environment has
\* been changed since so that a fresh resolution succeeds
SourceCorrected ==
    /\ kind \in {"env", "shared"}
    /\ g.lastRet.by = "Get" /\ g.lastRet.err # NoErr
    /\ g.lastRet.env # env
    /\ FreshResolution.err = NoErr

\* caller t's Get returns in this step
GetReturns(t) == pc[t] \in {"Get_fast", "Get_slow", "Get_Retrieve"} /\ pc'[t] = "idle"

\* C11: for the Environment and Shared-File providers, after a Get that
\* failed, once the environment is corrected so that a fresh resolution
\* would succeed, the next Get calls Retrieve again and succeeds with the
\* value a fresh resolution gives. (SpecSeq)
C11_RetryAfterFix ==
    [][\A t \in Callers :
          (SourceCorrected /\ GetReturns(t)) =>
              /\ res'[t].retrieved
              /\ res'[t].err = NoErr
              /\ res'[t].val = FreshResolution.val]_vars


\* C12: with a Static provider that has an empty field, in any sequence of
\* Sign, Get, Expire and IsExpired calls, every Retrieve returns
\* ErrStaticCredentialsEmpty, every Get and every Sign returns that same
\* error value, the provider never reports expired, and the request is as
\* the caller passed it, without an Authorization header. (SpecStatic)
C12_EmptyStatic ==
    /\ g.lastRet.by # "none" => g.lastRet.err = ErrStaticCredentialsEmpty
    /\ ~ProviderIsExpired(kind, prov)
    /\ "Authorization" \notin DOMAIN req.Header
    /\ ctx.phase \in {"returned", "panic"} => req = ctx.orig
    /\ \A t \in Callers :
          /\ pc[t] # "panic"
          /\ res[t].op = "Get" =>
                /\ res[t].retrieved
                /\ res[t].provErr = ErrStaticCredentialsEmpty
                /\ res[t].err = res[t].provErr
          /\ res[t].op = "Sign" => res[t].err = ErrStaticCredentialsEmpty
          /\ res[t].op = "IsExpired" => ~res[t].provExpired

\* a Sign has returned the error after an Expire and two calls of Retrieve
C12_Witness ==
    /\ kind = "static"
    /\ res[1].op = "Sign" /\ res[1].err = ErrStaticCredentialsEmpty
    /\ g.nExpire > 0 /\ g.nRetrieve > 1
    /\ req.Method = "POST" /\ req.Body = NewBuffer("abc")

\* the Sign calls that have returned a nil error
Signed == { t \in Callers : res[t].op = "Sign" /\ res[t].err = NoErr }

\* C13: whenever Sign returns a nil error, the header set it returns is the
\* request's full header set, with the Authorization header that was
\* written onto the request. (SpecSign)
C13_ReturnsSignedHeaders ==
    \A t \in Signed :
        /\ res[t].hdr = Header(req.Header)
        /\ "Authorization" \in DOMAIN res[t].hdr.h
        /\ res[t].hdr.h["Authorization"] = ctx.signedAuthHeaders

\* the path and query the string-to-sign is to carry for request r
PathQuery(r) ==
    IF r.URL.RawQuery = "" THEN r.URL.Path ELSE r.URL.Path \o "?" \o r.URL.RawQuery

\* C14: the canonical path+query in the string-to-sign is the URL path alone
\* when the raw query is empty (no trailing "?"), and path + "?" + raw query,
\* verbatim, otherwise. (SpecSign)
C14_PathQuery ==
    /\ ctx.phase \in {"returned", "panic"} => ctx.pathQuery = PathQuery(req)
    /\ ctx.phase = "returned" =>
          Contains(ctx.signingData, "\t" \o PathQuery(req) \o "\t" \o ctx.canonicalHeaders \o "\t")

\* the canonical-headers string has an entry for the request header k
HasEntry(k) == Contains("\t" \o ctx.canonicalHeaders, "\t" \o ToLower(k) \o ":")

\* C15: a request header whose name equals an entry of the headers-to-sign
\* list ignoring letter case appears in the canonical-headers string.
\* (SpecSign)
C15_CaseInsensitive ==
    ctx.phase \in {"returned", "panic"} =>
        \A k \in DOMAIN ctx.orig.Header : \A i \in 1..Len(ctx.headersToSign) :
            EqualFold(k, ctx.headersToSign[i]) => HasEntry(k)

\* C16: the canonical-headers string has an entry only for a header that
\* is on the request and named in the headers-to-sign list: an unlisted
\* request header and a listed header that the request lacks have no
\* entry, and with nothing to sign (an empty list included) the string is
\* empty. (SpecSign)
C16_OnlyListedAndPresent ==
    ctx.phase \in {"returned", "panic"} =>
        /\ \A k \in HeaderNames \cup DOMAIN req.Header :
              HasEntry(k) =>
                  /\ k \in DOMAIN ctx.orig.Header
                  /\ \E i \in 1..Len(ctx.headersToSign) : EqualFold(k, ctx.headersToSign[i])
        /\ (\A k \in DOMAIN ctx.orig.Header : ~HasEntry(k)) => ctx.canonicalHeaders = ""
        /\ ctx.headersToSign = <<>> => ctx.canonicalHeaders = ""

\* signed: a request with X-Test1 alone, with X-Test2 listed beside it
C16_Witness ==
    /\ ctx.phase = "returned"
    /\ ctx.orig.Header = ("X-Test1" :> " A  b\t")
    /\ ctx.headersToSign = <<"X-Test2", "X-Test1">>
    /\ ctx.canonicalHeaders = "x-test1:a b"

\* the Sign calls that got credentials and so went on to build
Built == ctx.phase \in {"returned", "panic"} /\ ctx.credValues # ZeroAuth

\* the body of the request as it was passed to Sign
OrigBody == IF ctx.orig.Body.nil THEN "" ELSE ctx.orig.Body.buf

\* C17: the content hash is non-empty exactly when the method is POST and
\* the body is non-empty, and is the empty string otherwise; the
\* string-to-sign has its content-hash slot either way, being the seven
\* fields joined by tabs. (SpecSign)
C17_ContentHash ==
    Built =>
        /\ ctx.contentHash # "" <=> (ctx.orig.Method = "POST" /\ OrigBody # "")
        /\ ctx.signingData =
              Join(<<req.Method, req.URL.Scheme, req.URL.Host, ctx.pathQuery,
                     ctx.canonicalHeaders, ctx.contentHash, ctx.authHeaders>>, "\t")

\* the configured maximum: Signer.MaxBody, or the default when that is 0
ConfiguredMax == IF signer.MaxBody = 0 THEN DefaultMaxBody ELSE signer.MaxBody

\* C18: for a POST whose body is longer than the configured maximum, Sign
\* returns without error, the content hash is that of exactly the first
\* max bytes of the body, and the request's body stream afterwards yields
\* the complete original body from its first byte. (SpecSign)
C18_HashTruncatedBody ==
    (Built /\ ctx.orig.Method = "POST" /\ Len(OrigBody) > ConfiguredMax) =>
        /\ ctx.phase = "returned"
        /\ \A t \in Callers : res[t].op = "Sign" /\ res[t].err = NoErr
        /\ ctx.contentHash = Sum256Base64(SubSeq(OrigBody, 1, ConfiguredMax))
        /\ req.Body = NewBuffer(OrigBody)

\* what Sign yields for the request and the credentials of the latest call
\* under every clock reading and every random nonce
Reruns ==
    { build(signer.file, NewSigningCtx(ctx, signer, ctx.credValues), ctx.orig, now, u) :
        now \in Clock, u \in UUIDs }

\* a Sign returns in this step, with a timestamp and a nonce fixed by the
\* caller, on a request that an earlier Sign has signed
SignsAgain(t) ==
    /\ InSign(t) /\ pc[t] = "idle" /\ ctx'.phase = "returned"
    /\ signer.Timestamp # "" /\ signer.Nonce # ""
    /\ ctx.signedAuthHeaders # ""

\* C19: with a timestamp and a nonce fixed by the caller, Sign uses both
\* verbatim, every run on the same request, credentials and list gives the
\* same string-to-sign, signature and Authorization value whatever the
\* clock and the random source give, and signing the request a second time
\* gives what the first run gave. (SpecSign)
C19_Deterministic ==
    /\ [](Built /\ ctx.phase = "returned" /\ signer.Timestamp # "" /\ signer.Nonce # "" =>
            /\ ctx.formattedTime = signer.Timestamp /\ ctx.nonce = signer.Nonce
            /\ Contains(ctx.signedAuthHeaders,
                        ";timestamp=" \o signer.Timestamp \o ";nonce=" \o signer.Nonce \o ";")
            /\ \A b \in Reruns :
                  /\ b.ctx.signingData = ctx.signingData
                  /\ b.ctx.signedAuthHeaders = ctx.signedAuthHeaders
                  /\ b.req.Header["Authorization"] = req.Header["Authorization"])
    /\ [][\A t \in Callers :
            SignsAgain(t) =>
                /\ ctx'.signingData = ctx.signingData
                /\ ctx'.signedAuthHeaders = ctx.signedAuthHeaders
                /\ req'.Header["Authorization"] = req.Header["Authorization"]]_vars

\* the second Sign of a POST request with a body and a signed header has
\* returned, timestamp and nonce being fixed
C19_Witness ==
    /\ Built /\ ctx.phase = "returned" /\ g.nGet = 2
    /\ signer.Timestamp # "" /\ signer.Nonce # ""
    /\ ctx.orig.Method = "POST" /\ OrigBody = "abc"
    /\ ctx.canonicalHeaders = "x-test1:a b"

\* C20: once Get has given credentials, Sign completes normally for every
\* Signer and every request: it does not panic, returns a nil error and
\* leaves the Authorization header on the request. (SpecSign)
C20_SignCompletes ==
    Built =>
        /\ ctx.phase = "returned"
        /\ \A t \in Callers : pc[t] # "panic" /\ res[t].op = "Sign" /\ res[t].err = NoErr
        /\ "Authorization" \in DOMAIN req.Header
        /\ req.Header["Authorization"] = ctx.signedAuthHeaders


\* the file path and the profile name that the stated precedence gives a
\* provider constructed as this one was, in the environment of the current
\* state
PrecedenceFile ==
    IF g.newProv.Filename # "" THEN g.newProv.Filename
    ELSE IF env["AKAMAI_ENVRC_FILE"] # "" THEN env["AKAMAI_ENVRC_FILE"]
    ELSE HomeEdgerc

PrecedenceProfile ==
    IF g.newProv.Profile # "" THEN g.newProv.Profile
    ELSE IF env["AKAMAI_PROFILE"] # "" THEN env["AKAMAI_PROFILE"]
    ELSE "default"

\* what filename() and profile() give a Retrieve that is called in the
\* current state
ResolvedFile == filename(RetrieveEnter(kind, prov), env, homeOK, g.nAlloc + 1)

ResolvedProfile == profile(RetrieveEnter(kind, prov), env).Profile

\* C21: the Shared-File provider resolves the file path as the configured
\* Filename, else the file override of the environment, else ~/.edgerc, and
\* the profile as the configured Profile, else the profile override of the
\* environment, else "default", whenever Retrieve is called. (SpecSeq)
C21_Precedence ==
    kind = "shared" =>
        /\ ResolvedFile.err = NoErr => ResolvedFile.name = PrecedenceFile
        /\ ResolvedProfile = PrecedenceProfile


\* the callers whose Retrieve is in progress
Retrieving == { t \in Callers : pc[t] = "Get_Retrieve" }

\* C22: with any number of concurrent callers of Get, Expire and IsExpired,
\* at most one Retrieve is in progress, its caller holds the exclusive lock
\* (no reader holds the lock), and while it is in progress no other caller
\* takes a step that reads the provider's expiry state or the cached value:
\* another caller can only start a call and wait for the lock. (Spec)
C22_RefreshExclusive ==
    /\ [](/\ Cardinality(Retrieving) <= 1
          /\ \A t \in Retrieving : rw.w = t /\ rw.readers = {})
    /\ [][\A t \in Retrieving : \A u \in Callers \ {t} :
            /\ pc'[u] # pc[u] => (pc[u] = "idle" /\ u \notin rw'.readers)
            /\ res'[u] = res[u]]_vars

\* a Retrieve is in progress while another caller, which found the cache
\* expired too, waits for the exclusive lock
C22_Witness ==
    /\ pc[1] = "Get_Retrieve"
    /\ pc[2] = "Get_Lock"


\* the callers of Get that wait for the read lock while the cache is not
\* expired
WaitingReaders ==
    { t \in rw.rwait : pc[t] = "Get_fast" /\ ~isExpired(forceRefresh, kind, prov) }

ServedFast(t) == pc[t] = "Get_fast" /\ pc'[t] = "idle"

\* caller t enters Get in this step
EntersGet(t) == pc[t] = "idle" /\ pc'[t] = "Get_fast"

C23_WitnessShared ==
    /\ rw.readers = {1, 2} /\ pc[1] = "Get_fast" /\ pc[2] = "Get_fast"
    /\ ~isExpired(forceRefresh, kind, prov)


\* a Sign has built its context to the end
Completed == Built /\ ctx.phase = "returned"

\* C24: the string-to-sign is the tab-join of seven fields in the order
\* method, scheme, host, path+query, canonical headers, content hash,
\* preamble; the last four are the values this build computed before it
\* (the preamble carries this build's timestamp and nonce, and is set), and
\* the signature is computed from the signing key and the string-to-sign
\* after both are set. (SpecSign)
C24_SigningDataOrder ==
    Completed =>
        /\ ctx.signingData =
              Join(<<ctx.orig.Method, ctx.orig.URL.Scheme, ctx.orig.URL.Host, ctx.pathQuery,
                     ctx.canonicalHeaders, ctx.contentHash, ctx.authHeaders>>, "\t")
        /\ ctx.pathQuery # "" /\ ctx.authHeaders # "" /\ ctx.signingKey # ""
        /\ ctx.authHeaders = buildAuthHeaders(ctx).authHeaders
        /\ ctx.signingKey = buildSigningKey(ctx).signingKey
        /\ ctx.contentHash = buildContentHash(ctx, ctx.orig).ctx.contentHash
        /\ signer.file = "signer" =>
              ctx.canonicalHeaders = buildCanonicalHeaders(ctx, ctx.orig).canonicalHeaders
        /\ ctx.signedAuthHeaders =
              ctx.authHeaders \o "signature=" \o createSignature(ctx.signingData, ctx.signingKey)

\* a POST with a query, a body and one signed header has been signed with
\* a timestamp and a nonce given by the caller
C24_Witness ==
    /\ Completed
    /\ ctx.signingData =
          "POST\thttps\takaa.example\t/p?a=1&b=%20\tx-test1:a b\tsha256{abc}\t"
          \o "EG1-HMAC-SHA256 client_token=ct;access_token=at;"
          \o "timestamp=20140321T19:34:21+0000;nonce=nonce-xx;"


\* base64(HMAC-SHA256(key, msg))
MAC(key, msg) == createSignature(msg, key)

\* the preamble for the cached credentials and the timestamp and nonce of
\* the latest Sign
Preamble ==
    "EG1-HMAC-SHA256 client_token=" \o creds.ClientToken
    \o ";access_token=" \o creds.AccessToken
    \o ";timestamp=" \o ctx.formattedTime \o ";nonce=" \o ctx.nonce \o ";"

\* C25: the Authorization value that Sign writes is the preamble, then
\* "signature=", then MAC(MAC(client secret, timestamp), string-to-sign);
\* the preamble ends with a semicolon and is the last field of the
\* string-to-sign; the signing key has the secret as HMAC key and the
\* timestamp as message. (SpecSign)
C25_AuthorizationValue ==
    Completed =>
        /\ "Authorization" \in DOMAIN req.Header
        /\ req.Header["Authorization"] =
              Preamble \o "signature="
              \o MAC(MAC(creds.ClientSecret, ctx.formattedTime), ctx.signingData)
        /\ HasSuffix(ctx.signingData, "\t" \o Preamble)
        /\ ctx.signingKey = MAC(creds.ClientSecret, ctx.formattedTime)
        /\ ctx.signingKey # MAC(ctx.formattedTime, creds.ClientSecret)
        /\ ctx.formattedTime \in Clock \cup {signer.Timestamp}
        /\ ctx.nonce \in UUIDs \cup {signer.Nonce}

\* a GET without query and headers has been signed with a timestamp and a
\* nonce given by the caller
C25_Witness ==
    /\ Completed
    /\ req.Header["Authorization"] =
          "EG1-HMAC-SHA256 client_token=ct;access_token=at;"
          \o "timestamp=20140321T19:34:21+0000;nonce=nonce-xx;"
          \o "signature=hmac{hmac{cs}{20140321T19:34:21+0000}}{GET\thttps\takaa.example\t/p\t\t\t"
          \o "EG1-HMAC-SHA256 client_token=ct;access_token=at;"
          \o "timestamp=20140321T19:34:21+0000;nonce=nonce-xx;}"


\* every run of whitespace of s replaced by one space
RECURSIVE Collapse(_)
Collapse(s) ==
    IF s = "" THEN ""
    ELSE IF IsSpace(Char(s, 1)) THEN " " \o Collapse(TrimLeft(s))
    ELSE Char(s, 1) \o Collapse(From(s, 1))

\* s has two whitespace characters side by side
AdjacentSpaces(s) == \E i \in 1..(Len(s) - 1) : IsSpace(Char(s, i)) /\ IsSpace(Char(s, i + 1))

\* the entry of the retained header k of the request that was passed
Rendered(k) == ToLower(k) \o ":" \o ToLower(Collapse(TrimSpace(ctx.orig.Header[k])))

\* the names of the request's headers that the list names, ascending
Retained ==
    SortStrings({ k \in DOMAIN ctx.orig.Header :
                    \E i \in 1..Len(ctx.headersToSign) : ctx.headersToSign[i] = k })

\* the entries of the headers named in names, in that order: a header has
\* one entry for each place of the list that names it
RECURSIVE EntriesOf(_)
EntriesOf(names) ==
    IF names = <<>> THEN <<>>
    ELSE [j \in 1..Cardinality({ i \in 1..Len(ctx.headersToSign) :
                                    ctx.headersToSign[i] = Head(names) }) |->
             Rendered(Head(names))]
         \o EntriesOf(Tail(names))

\* C26: the canonical-headers string is the entries lower(name) ":"
\* lower(collapse(trim(value))) of the retained headers, in ascending order
\* of the names, joined by single tabs; the Signer's collapse is the
\* replacement of every run of whitespace by one space, is idempotent and
\* leaves no two whitespace characters side by side, on the value of every
\* retained header and on its trimmed form. (SpecCanon)
C26_CanonicalHeaders ==
    Completed =>
        /\ ctx.canonicalHeaders = Join(EntriesOf(Retained), "\t")
        /\ \A i \in 1..Len(Retained) :
              \A v \in {ctx.orig.Header[Retained[i]], TrimSpace(ctx.orig.Header[Retained[i]])} :
                  /\ stringMinifier(v) = Collapse(v)
                  /\ stringMinifier(stringMinifier(v)) = stringMinifier(v)
                  /\ ~AdjacentSpaces(stringMinifier(v))
                  /\ (v = TrimSpace(v) /\ v # "") =>
                        ~IsSpace(Char(v, 1)) /\ ~IsSpace(Char(v, Len(v)))

\* signed: X-Test2 listed first, X-Test1 with a value that has runs of
\* whitespace inside and around it
C26_Witness ==
    /\ Completed
    /\ ctx.orig.Header = ("X-Test1" :> " a\tB" @@ "X-Test2" :> " w")
    /\ ctx.canonicalHeaders = "x-test1:a b\tx-test2:w"


\* the bytes that the stream body yields from where it stands
Unread(body) == IF body.nil THEN "" ELSE From(body.buf, body.off)

\* C27: a Sign that returns a nil error has set the Authorization header
\* to the value it computed, replacing what was there, has left every
\* other header, the method and the URL as they were passed, and has left
\* the body stream at its start, yielding the bytes that the body passed
\* would have yielded (no stream where none was passed). (SpecSign)
C27_RequestFrame ==
    (Completed /\ Signed # {}) =>
        /\ DOMAIN req.Header = DOMAIN ctx.orig.Header \cup {"Authorization"}
        /\ req.Header["Authorization"] = ctx.signedAuthHeaders
        /\ \A k \in DOMAIN ctx.orig.Header \ {"Authorization"} :
              req.Header[k] = ctx.orig.Header[k]
        /\ req.Method = ctx.orig.Method
        /\ req.URL = ctx.orig.URL
        /\ req.Body.nil = ctx.orig.Body.nil
        /\ req.Body.off = 0
        /\ Unread(req.Body) = Unread(ctx.orig.Body)

\* the second Sign of a POST with a body and two headers has returned, and
\* has replaced the Authorization value of the first
C27_Witness ==
    /\ Completed /\ Signed # {}
    /\ "Authorization" \in DOMAIN ctx.orig.Header
    /\ req.Header["Authorization"] # ctx.orig.Header["Authorization"]
    /\ DOMAIN req.Header = HeaderNames \cup {"Authorization"}
    /\ req.Method = "POST" /\ req.Body = NewBuffer("abc")


\* in this step the Retrieve of caller t's Get returns without error, t
\* holding the exclusive lock
Refreshes(t) ==
    /\ pc[t] = "Get_Retrieve" /\ pc'[t] = "idle"
    /\ rw.w = t /\ rw.readers = {}
    /\ res'[t].op = "Get" /\ res'[t].retrieved /\ res'[t].provErr = NoErr

\* in this step caller t's Expire makes its assignment
Expires(t) == pc[t] = "Expire_set" /\ pc'[t] = "idle"

\* C28: the cached value changes only in the step in which a Get that
\* holds the exclusive lock gets a value from Retrieve without error, and
\* becomes that value; forceRefresh is cleared only in such a step and set
\* only by Expire; so a Get served from the cache, a Get whose Retrieve
\* fails, Expire and IsExpired leave the cached value as it was. (Spec)
C28_CacheFrame ==
    [][/\ creds' # creds => \E t \in Callers : Refreshes(t) /\ creds' = res'[t].provVal
       /\ (forceRefresh /\ ~forceRefresh') => \E t \in Callers : Refreshes(t)
       /\ (~forceRefresh /\ forceRefresh') => \E t \in Callers : Expires(t)
       /\ \A t \in Callers :
             /\ Refreshes(t) => (creds' = res'[t].provVal /\ ~forceRefresh')
             /\ Expires(t) => forceRefresh'
             /\ (pc'[t] # pc[t] /\ ~Refreshes(t)) =>
                   (creds' = creds /\ (forceRefresh' = forceRefresh \/ Expires(t)))]_vars

\* a second successful Retrieve, after an Expire, has replaced the cached
\* value and cleared the flag, while the other caller's IsExpired has
\* returned
C28_Witness ==
    /\ creds # ZeroAuth /\ ~forceRefresh
    /\ g.nExpire > 0 /\ g.nRetrieve >= 2 /\ g.credsSeq = g.nRetrieve
    /\ \E t \in Callers : res[t].op = "IsExpired"
    /\ \E t \in Callers : res[t].op = "Get" /\ res[t].retrieved


\* the callers to whom NewRequest has returned a request and a nil error
Requested ==
    { t \in Callers :
        res[t].op = "NewRequest" /\ res[t].err = NoErr /\ ctx.phase = "returned" }

\* C29: a request that NewRequest returns with a nil error carries an
\* Authorization header, and when Sign has failed NewRequest returns an
\* error. (SpecClient)
C29_SignedOrError ==
    /\ \A t \in Requested : "Authorization" \in DOMAIN req.Header
    /\ \A t \in Callers :
          (res[t].op = "NewRequest" /\ res[t].signErr # NoErr) => res[t].err # NoErr

\* the JSON text that NewRequest encoded the body of the latest call to
Encoding == ctx.Body.buf

\* C30: when NewRequest is given a body, the request's body stream is
\* unread when Sign is entered, the bytes hashed for a POST are the whole
\* JSON encoding, and the request returned yields the whole encoding, as
\* long as its ContentLength says. (SpecClient)
C30_BodyIntact ==
    \A t \in Requested :
        ~ctx.Body.nil =>
            /\ ctx.orig.Body.off = 0
            /\ Unread(ctx.orig.Body) = Encoding
            /\ (ctx.orig.Method = "POST" /\ res[t].signErr = NoErr) =>
                  ctx.contentHash = Sum256Base64(Encoding)
            /\ Unread(req.Body) = Encoding
            /\ Len(Unread(req.Body)) = req.ContentLength

====
